---- MODULE Spec2Model ----
(***************************************************************************)
(* Range vs. Range: the range-based betting engine of rvr/core/api.py.     *)
(*                                                                         *)
(* The state is the database as the API sees it: the running games (each   *)
(* with its participants and its hand history), and the dealer's shuffle.  *)
(* Every API entry point is one action; the helpers of api.py are          *)
(* operators from a game record to a game record, and an entry point is an *)
(* operator from the database and the call's arguments to the database and *)
(* the call's response.  The modules                                       *)
(* rvr.poker.action, rvr.poker.cards and rvr.poker.handrange are not part  *)
(* of the sources at hand; their operators follow the design document.     *)
(***************************************************************************)
EXTENDS Integers, Sequences, FiniteSets, TLC

VARIABLES running_games, shuffle, open_games, gameid_seq, users, sessions

vars == <<running_games, shuffle, open_games, gameid_seq, users, sessions>>

-----------------------------------------------------------------------------
(* Bounds of the model *)

\* The deck is 1..DeckSize (the program's deck has 52 cards).
DeckSize == 12

\* The dealer's shuffle is one of DealChoices orders of the deck.
DealChoices == 2

\* At most MaxMoves range actions of one hand bet, raise or split the range;
\* whole-range folds and calls are not counted.
MaxMoves == 1

\* In the hands played with the whole range, at most MaxRaises range actions
\* of one hand bet or raise.
MaxRaises == 2

\* In the lobby, the game ids issued go up to MaxGames.
MaxGames == 4

-----------------------------------------------------------------------------
(* Cards, hand combinations and ranges *)

Deck == 1 .. DeckSize

\* A hand combination is (higher_card, lower_card).
ANYTHING == {c \in Deck \X Deck : c[1] > c[2]}

NOTHING == {}

\* The three ranges of the three-handed situation, as sub-ranges of ANYTHING.
ThreeRange(k) == {c \in ANYTHING : (c[1] + c[2]) % 5 # k}

Min(S) == CHOOSE x \in S : \A y \in S : x <= y

Max(S) == CHOOSE x \in S : \A y \in S : x >= y

\* The highest and the lowest combination of a range, by (higher, lower) card.
Top(range) ==
    LET higher == Max({c[1] : c \in range})
    IN <<higher, Max({c[2] : c \in {x \in range : x[1] = higher}})>>

Bottom(range) ==
    LET higher == Min({c[1] : c \in range})
    IN <<higher, Min({c[2] : c \in {x \in range : x[1] = higher}})>>

SeqToSet(s) == {s[i] : i \in 1 .. Len(s)}

CardsOf(c) == {c[1], c[2]}

RECURSIVE Sum(_, _)
Sum(f, S) == IF S = {} THEN 0 ELSE LET x == CHOOSE y \in S : TRUE IN f[x] + Sum(f, S \ {x})

\* The place of a card in the deck as shuffled by draw d.
Place(card, d) == (card + DeckSize - 1 - 5 * d) % DeckSize

First(S, d) == CHOOSE x \in S : \A y \in S : Place(x, d) <= Place(y, d)

RECURSIVE TakeFirst(_, _, _)
TakeFirst(S, n, d) == IF n <= 0 \/ S = {} THEN <<>> ELSE <<First(S, d)>> \o TakeFirst(S \ {First(S, d)}, n - 1, d)

\* deal_cards(excluded, number): `number' cards of the shuffled deck outside
\* `excluded'.
deal_cards(excluded, number, d) == TakeFirst(Deck \ excluded, number, d)

remove_board_from_range(range, board) == {c \in range : CardsOf(c) \cap SeqToSet(board) = {}}

\* deal_from_ranges(map_to_range, board): a hand for every player, from the
\* player's range, sharing no card with the board or another hand.
RECURSIVE DealFrom(_, _, _, _)
DealFrom(ranges, used, o, d) ==
    IF o > Len(ranges) THEN <<>>
    ELSE LET free == {c \in ranges[o] : CardsOf(c) \cap used = {}}
             hand == CHOOSE c \in free : \A other \in free :
                        Place(c[1], d) * DeckSize + Place(c[2], d)
                            <= Place(other[1], d) * DeckSize + Place(other[2], d)
         IN <<hand>> \o DealFrom(ranges, used \cup CardsOf(hand), o + 1, d)

deal_from_ranges(ranges, board, d) == DealFrom(ranges, SeqToSet(board), 1, d)

-----------------------------------------------------------------------------
(* Streets *)

PREFLOP == "preflop"

FLOP == "flop"

TURN == "turn"

RIVER == "river"

NEXT_ROUND(round) == CASE round = PREFLOP -> FLOP [] round = FLOP -> TURN [] round = TURN -> RIVER

TOTAL_COMMUNITY_CARDS(round) == CASE round = PREFLOP -> 0 [] round = FLOP -> 3 [] round = TURN -> 4 [] round = RIVER -> 5

-----------------------------------------------------------------------------
(* Users, situations *)

\* RunningGame.current_userid is None when the game is finished.
None == 0

Users == {5, 6, 7}

\* The order in which the users registered in the open game.
JoinOrder == <<5, 7, 6>>

GameIds == {1}

\* _create_hu with half a stack for the big blind: the button's stack covers
\* a bet the big blind cannot call.
_create_hu_short ==
    [description |-> "Heads-up preflop, 100 BB",
     players |-> << [stack |-> 98, contributed |-> 2, left_to_act |-> TRUE, range_raw |-> ANYTHING],
                    [stack |-> 199, contributed |-> 1, left_to_act |-> TRUE, range_raw |-> ANYTHING] >>,
     current_player |-> 1,
     is_limit |-> FALSE,
     big_blind |-> 2,
     board_raw |-> <<>>,
     current_round |-> PREFLOP,
     pot_pre |-> 0,
     increment |-> 2,
     bet_count |-> 1]

_create_hu ==
    [description |-> "Heads-up preflop, 100 BB",
     players |-> << [stack |-> 198, contributed |-> 2, left_to_act |-> TRUE, range_raw |-> ANYTHING],
                    [stack |-> 199, contributed |-> 1, left_to_act |-> TRUE, range_raw |-> ANYTHING] >>,
     current_player |-> 1,
     is_limit |-> FALSE,
     big_blind |-> 2,
     board_raw |-> <<>>,
     current_round |-> PREFLOP,
     pot_pre |-> 0,
     increment |-> 2,
     bet_count |-> 1]

_create_three ==
    [description |-> "Three-way flop",
     players |-> << [stack |-> 195, contributed |-> 0, left_to_act |-> TRUE, range_raw |-> ThreeRange(0)],
                    [stack |-> 195, contributed |-> 0, left_to_act |-> TRUE, range_raw |-> ThreeRange(1)],
                    [stack |-> 195, contributed |-> 0, left_to_act |-> TRUE, range_raw |-> ThreeRange(2)] >>,
     current_player |-> 0,
     is_limit |-> FALSE,
     big_blind |-> 2,
     board_raw |-> <<>>,
     current_round |-> FLOP,
     pot_pre |-> 16,
     increment |-> 2,
     bet_count |-> 0]

\* _add_all_situations
Situations == {_create_hu, _create_three}

\* RunningGame.situation
SituationOf(game) == CHOOSE situation \in Situations : situation.description = game.situation

Orders(game) == DOMAIN game.rgps

\* RunningGame.current_rgp: the participant whose userid is current_userid.
current_rgp(game) == CHOOSE o \in Orders(game) : game.rgps[o].userid = game.current_userid

is_finished(game) == game.current_userid = None

\* game.is_finished = True
set_is_finished(game) == [game EXCEPT !.current_userid = None]

finish_game(game) == set_is_finished(game)

-----------------------------------------------------------------------------
(* Hand history *)

\* _record_hand_history_item that leaves next_hh as it is.
_record_hand_history_item_samenumber(game, item) ==
    [game EXCEPT !.history = Append(@, [order |-> game.next_hh, item |-> item])]

\* _record_hand_history_item: the item gets the game's next sequence number.
_record_hand_history_item(game, item) ==
    [game EXCEPT !.history = Append(@, [order |-> game.next_hh, item |-> item]),
                 !.next_hh = @ + 1]

\* An exception raised, with the game as the session holds it at that point.
Raise(name, game) == [exception |-> name, game |-> game]

_record_action_result(game, o, action_result) ==
    IF action_result.is_terminate THEN Raise("ValueError", game)
    ELSE _record_hand_history_item(game,
            [type |-> "ActionResult", userid |-> game.rgps[o].userid,
             is_fold |-> action_result.is_fold,
             is_passive |-> action_result.is_passive,
             is_aggressive |-> action_result.is_aggressive,
             call_cost |-> action_result.call_cost,
             raise_total |-> action_result.raise_total,
             is_raise |-> action_result.is_raise])

_record_rgp_range(game, o, range_raw) ==
    _record_hand_history_item(game,
        [type |-> "UserRange", userid |-> game.rgps[o].userid, range_raw |-> range_raw])

_record_range_action(game, o, range_action, is_check, is_raise) ==
    _record_hand_history_item(game,
        [type |-> "RangeAction", userid |-> game.rgps[o].userid,
         fold_range |-> range_action.fold_range,
         passive_range |-> range_action.passive_range,
         aggressive_range |-> range_action.aggressive_range,
         raise_total |-> range_action.raise_total,
         is_check |-> is_check, is_raise |-> is_raise])

_record_board(game) ==
    _record_hand_history_item(game,
        [type |-> "Board", street |-> game.current_round, cards |-> game.board])

_record_timeoout(game, o) ==
    _record_hand_history_item(game, [type |-> "Timeout", userid |-> game.rgps[o].userid])

IsException(x) == "exception" \in DOMAIN x

-----------------------------------------------------------------------------
(* Options Calculator and Range Partition Validator (rvr.poker.action) *)

\* The current required contribution: the highest contribution of the round.
raised_to(game) == Max({game.rgps[p].contributed : p \in Orders(game)})

calculate_current_options(game, o) ==
    LET rgp == game.rgps[o]
        required == raised_to(game)
        max_raise_total == rgp.stack + rgp.contributed
    IN [can_check |-> rgp.contributed = required,
        is_raise |-> game.bet_count > 0,
        can_raise |-> max_raise_total > required,
        min_raise_total |-> required + game.increment,
        max_raise_total |-> max_raise_total,
        call_cost |-> required - rgp.contributed]

IsPartition(range_action, range) ==
    /\ range_action.fold_range \cup range_action.passive_range \cup range_action.aggressive_range = range
    /\ range_action.fold_range \cap range_action.passive_range = {}
    /\ range_action.fold_range \cap range_action.aggressive_range = {}
    /\ range_action.passive_range \cap range_action.aggressive_range = {}

range_action_fits(range_action, options, range) ==
    IF ~IsPartition(range_action, range)
    THEN [is_valid |-> FALSE, err |-> "InvalidPartition"]
    ELSE IF range_action.aggressive_range # NOTHING /\ ~options.can_raise
    THEN [is_valid |-> FALSE, err |-> "InvalidPartition"]
    ELSE IF range_action.aggressive_range # NOTHING
            /\ (range_action.raise_total < options.min_raise_total
                \/ range_action.raise_total > options.max_raise_total)
    THEN [is_valid |-> FALSE, err |-> "InvalidRaiseTotal"]
    ELSE IF range_action.aggressive_range = NOTHING /\ range_action.raise_total # 0
    THEN [is_valid |-> FALSE, err |-> "InvalidRaiseTotal"]
    ELSE [is_valid |-> TRUE, err |-> "None"]

-----------------------------------------------------------------------------
(* Action results and their application (rvr.poker.action) *)

ActionResult_fold ==
    [is_fold |-> TRUE, is_passive |-> FALSE, is_aggressive |-> FALSE, is_terminate |-> FALSE,
     call_cost |-> 0, raise_total |-> 0, is_raise |-> FALSE]

ActionResult_call(call_cost) ==
    [is_fold |-> FALSE, is_passive |-> TRUE, is_aggressive |-> FALSE, is_terminate |-> FALSE,
     call_cost |-> call_cost, raise_total |-> 0, is_raise |-> FALSE]

ActionResult_raise_to(raise_total, is_raise) ==
    [is_fold |-> FALSE, is_passive |-> FALSE, is_aggressive |-> TRUE, is_terminate |-> FALSE,
     call_cost |-> 0, raise_total |-> raise_total, is_raise |-> is_raise]

ActionResult_terminate ==
    [is_fold |-> FALSE, is_passive |-> FALSE, is_aggressive |-> FALSE, is_terminate |-> TRUE,
     call_cost |-> 0, raise_total |-> 0, is_raise |-> FALSE]

act_fold(game, o) ==
    [game EXCEPT !.rgps[o].folded = TRUE, !.rgps[o].left_to_act = FALSE]

act_passive(game, o, call_cost) ==
    [game EXCEPT !.rgps[o].stack = @ - call_cost,
                 !.rgps[o].contributed = @ + call_cost,
                 !.rgps[o].left_to_act = FALSE]

act_aggressive(game, o, raise_total) ==
    [game EXCEPT
        !.bet_count = @ + 1,
        !.increment = IF raise_total - raised_to(game) > @ THEN raise_total - raised_to(game) ELSE @,
        !.rgps = [p \in Orders(game) |->
                    IF p = o
                    THEN [game.rgps[p] EXCEPT !.stack = @ - (raise_total - game.rgps[p].contributed),
                                              !.contributed = raise_total,
                                              !.left_to_act = FALSE]
                    ELSE IF ~game.rgps[p].folded
                    THEN [game.rgps[p] EXCEPT !.left_to_act = TRUE]
                    ELSE game.rgps[p]]]

-----------------------------------------------------------------------------
(* Game State Machine (api.py) *)

\* _deal_to_board that leaves the ranges as they are.
_deal_to_board_unstripped(game, d) ==
    LET total == TOTAL_COMMUNITY_CARDS(game.current_round)
        current == Len(game.board)
        excluded_cards == UNION {CardsOf(game.rgps[p].cards_dealt) : p \in Orders(game)}
                            \cup SeqToSet(game.board)
        new_board == game.board \o deal_cards(excluded_cards, total - current, d)
        dealt == [game EXCEPT !.board = new_board]
    IN IF total > current THEN _record_board(dealt) ELSE dealt

\* _deal_to_board that deals the whole board of the round anew.
_deal_to_board_redeal(game, d) ==
    LET total == TOTAL_COMMUNITY_CARDS(game.current_round)
        current == Len(game.board)
        excluded_cards == UNION {CardsOf(game.rgps[p].cards_dealt) : p \in Orders(game)}
                            \cup SeqToSet(game.board)
        new_board == deal_cards(excluded_cards, total, d)
        dealt == [game EXCEPT !.board = new_board]
        recorded == IF total > current THEN _record_board(dealt) ELSE dealt
    IN [recorded EXCEPT !.rgps = [p \in Orders(game) |->
            [recorded.rgps[p] EXCEPT !.range = remove_board_from_range(@, new_board)]]]

\* _deal_to_board that keeps only the board, not the hands dealt, out of the
\* cards it deals.
_deal_to_board_boardonly(game, d) ==
    LET total == TOTAL_COMMUNITY_CARDS(game.current_round)
        current == Len(game.board)
        excluded_cards == SeqToSet(game.board)
        new_board == game.board \o deal_cards(excluded_cards, total - current, d)
        dealt == [game EXCEPT !.board = new_board]
        recorded == IF total > current THEN _record_board(dealt) ELSE dealt
    IN [recorded EXCEPT !.rgps = [p \in Orders(game) |->
            [recorded.rgps[p] EXCEPT !.range = remove_board_from_range(@, new_board)]]]

\* _deal_to_board that strips the ranges with the board as it was before the
\* deal.
_deal_to_board_stalestrip(game, d) ==
    LET total == TOTAL_COMMUNITY_CARDS(game.current_round)
        current == Len(game.board)
        excluded_cards == UNION {CardsOf(game.rgps[p].cards_dealt) : p \in Orders(game)}
                            \cup SeqToSet(game.board)
        new_board == game.board \o deal_cards(excluded_cards, total - current, d)
        dealt == [game EXCEPT !.board = new_board]
        recorded == IF total > current THEN _record_board(dealt) ELSE dealt
    IN [recorded EXCEPT !.rgps = [p \in Orders(game) |->
            [recorded.rgps[p] EXCEPT !.range = remove_board_from_range(@, game.board)]]]

\* _deal_to_board that strips the ranges of the seats still in the hand only.
_deal_to_board_liveonly(game, d) ==
    LET total == TOTAL_COMMUNITY_CARDS(game.current_round)
        current == Len(game.board)
        excluded_cards == UNION {CardsOf(game.rgps[p].cards_dealt) : p \in Orders(game)}
                            \cup SeqToSet(game.board)
        new_board == game.board \o deal_cards(excluded_cards, total - current, d)
        dealt == [game EXCEPT !.board = new_board]
        recorded == IF total > current THEN _record_board(dealt) ELSE dealt
    IN [recorded EXCEPT !.rgps = [p \in Orders(game) |->
            IF recorded.rgps[p].folded THEN recorded.rgps[p]
            ELSE [recorded.rgps[p] EXCEPT !.range = remove_board_from_range(@, new_board)]]]

\* Deal the board up to the current round and strip the board from the ranges.
_deal_to_board(game, d) ==
    LET total == TOTAL_COMMUNITY_CARDS(game.current_round)
        current == Len(game.board)
        excluded_cards == UNION {CardsOf(game.rgps[p].cards_dealt) : p \in Orders(game)}
                            \cup SeqToSet(game.board)
        new_board == game.board \o deal_cards(excluded_cards, total - current, d)
        dealt == [game EXCEPT !.board = new_board]
        recorded == IF total > current THEN _record_board(dealt) ELSE dealt
    IN [recorded EXCEPT !.rgps = [p \in Orders(game) |->
            [recorded.rgps[p] EXCEPT !.range = remove_board_from_range(@, new_board)]]]

\* _finish_betting_round that resets the contributions without moving them
\* into the pot.
_finish_betting_round_unswept(game, remain, d) ==
    LET current_user == Min(remain)
        moved == [game EXCEPT !.current_userid = game.rgps[current_user].userid,
                              !.current_round = NEXT_ROUND(game.current_round)]
        dealt == _deal_to_board(moved, d)
    IN [dealt EXCEPT
            !.increment = SituationOf(game).big_blind,
            !.bet_count = 0,
            !.rgps = [p \in Orders(game) |->
                        [dealt.rgps[p] EXCEPT !.contributed = 0,
                                              !.left_to_act = IF dealt.rgps[p].folded THEN @ ELSE TRUE]]]

\* _finish_betting_round that makes every seat left to act, the folded seats
\* too.
_finish_betting_round_allact(game, remain, d) ==
    LET current_user == Min(remain)
        moved == [game EXCEPT !.current_userid = game.rgps[current_user].userid,
                              !.current_round = NEXT_ROUND(game.current_round)]
        dealt == _deal_to_board(moved, d)
    IN [dealt EXCEPT
            !.increment = SituationOf(game).big_blind,
            !.bet_count = 0,
            !.pot_pre = @ + Sum([p \in Orders(game) |-> dealt.rgps[p].contributed], Orders(game)),
            !.rgps = [p \in Orders(game) |->
                        [dealt.rgps[p] EXCEPT !.contributed = 0, !.left_to_act = TRUE]]]

\* _finish_betting_round that carries increment and bet_count over to the
\* next round.
_finish_betting_round_keepcount(game, remain, d) ==
    LET current_user == Min(remain)
        moved == [game EXCEPT !.current_userid = game.rgps[current_user].userid,
                              !.current_round = NEXT_ROUND(game.current_round)]
        dealt == _deal_to_board(moved, d)
    IN [dealt EXCEPT
            !.pot_pre = @ + Sum([p \in Orders(game) |-> dealt.rgps[p].contributed], Orders(game)),
            !.rgps = [p \in Orders(game) |->
                        [dealt.rgps[p] EXCEPT !.contributed = 0,
                                              !.left_to_act = IF dealt.rgps[p].folded THEN @ ELSE TRUE]]]

\* _finish_betting_round that moves into the pot only what the seats that are
\* not folded have contributed.
_finish_betting_round_remainonly(game, remain, d) ==
    LET current_user == Min(remain)
        moved == [game EXCEPT !.current_userid = game.rgps[current_user].userid,
                              !.current_round = NEXT_ROUND(game.current_round)]
        dealt == _deal_to_board(moved, d)
        unfolded == {p \in Orders(game) : ~dealt.rgps[p].folded}
    IN [dealt EXCEPT
            !.increment = SituationOf(game).big_blind,
            !.bet_count = 0,
            !.pot_pre = @ + Sum([p \in Orders(game) |-> dealt.rgps[p].contributed], unfolded),
            !.rgps = [p \in Orders(game) |->
                        [dealt.rgps[p] EXCEPT !.contributed = 0,
                                              !.left_to_act = IF dealt.rgps[p].folded THEN @ ELSE TRUE]]]

\* _finish_betting_round that puts the last of the remaining seats on turn.
_finish_betting_round_highest(game, remain, d) ==
    LET current_user == Max(remain)
        moved == [game EXCEPT !.current_userid = game.rgps[current_user].userid,
                              !.current_round = NEXT_ROUND(game.current_round)]
        dealt == _deal_to_board(moved, d)
    IN [dealt EXCEPT
            !.increment = SituationOf(game).big_blind,
            !.bet_count = 0,
            !.pot_pre = @ + Sum([p \in Orders(game) |-> dealt.rgps[p].contributed], Orders(game)),
            !.rgps = [p \in Orders(game) |->
                        [dealt.rgps[p] EXCEPT !.contributed = 0,
                                              !.left_to_act = IF dealt.rgps[p].folded THEN @ ELSE TRUE]]]

_finish_betting_round(game, remain, d) ==
    LET current_user == Min(remain)
        moved == [game EXCEPT !.current_userid = game.rgps[current_user].userid,
                              !.current_round = NEXT_ROUND(game.current_round)]
        dealt == _deal_to_board(moved, d)
    IN [dealt EXCEPT
            !.increment = SituationOf(game).big_blind,
            !.bet_count = 0,
            !.pot_pre = @ + Sum([p \in Orders(game) |-> dealt.rgps[p].contributed], Orders(game)),
            !.rgps = [p \in Orders(game) |->
                        [dealt.rgps[p] EXCEPT !.contributed = 0,
                                              !.left_to_act = IF dealt.rgps[p].folded THEN @ ELSE TRUE]]]

\* apply_action_result's choice of the next to act that stores the seat's
\* order where the userid belongs.
NextToAct_order(game, o, left_to_act) ==
    LET later == {p \in left_to_act : p > o}
        earlier == {p \in left_to_act : p < o}
        chosen == IF later # {} THEN later ELSE earlier
    IN [game EXCEPT !.current_userid = game.rgps[Min(chosen)].order]

\* apply_action_result that gives the turn to the lowest seat left to act,
\* whoever acted.
NextToAct_lowest(game, o, left_to_act) ==
    [game EXCEPT !.current_userid = game.rgps[Min(left_to_act)].userid]

\* The turn passes to the next participant left to act, in seating order.
NextToAct(game, o, left_to_act) ==
    LET later == {p \in left_to_act : p > o}
        earlier == {p \in left_to_act : p < o}
        chosen == IF later # {} THEN later ELSE earlier
    IN [game EXCEPT !.current_userid = game.rgps[Min(chosen)].userid]

\* apply_action_result without the walk case: the last seat left to act gets
\* the turn although everyone else has folded.
AfterAct_nowalk(game, o, d) ==
    LET left_to_act == {p \in Orders(game) : game.rgps[p].left_to_act}
        remain == {p \in Orders(game) : ~game.rgps[p].left_to_act /\ ~game.rgps[p].folded}
    IN IF left_to_act = {}
       THEN IF Cardinality(remain) = 1 \/ game.current_round = RIVER
            THEN set_is_finished(game)
            ELSE _finish_betting_round(game, remain, d)
       ELSE NextToAct(game, o, left_to_act)

\* apply_action_result that finishes a completed round only on the river: a
\* single seat that remains is dealt the next street.
AfterAct_riveronly(game, o, d) ==
    LET left_to_act == {p \in Orders(game) : game.rgps[p].left_to_act}
        remain == {p \in Orders(game) : ~game.rgps[p].left_to_act /\ ~game.rgps[p].folded}
    IN IF Cardinality(left_to_act) = 1 /\ remain = {}
       THEN set_is_finished(game)
       ELSE IF left_to_act = {}
       THEN IF game.current_round = RIVER
            THEN set_is_finished(game)
            ELSE _finish_betting_round(game, remain, d)
       ELSE NextToAct(game, o, left_to_act)

\* The game after acting: finish the hand, finish the round or pass the turn.
AfterAct(game, o, d) ==
    LET left_to_act == {p \in Orders(game) : game.rgps[p].left_to_act}
        remain == {p \in Orders(game) : ~game.rgps[p].left_to_act /\ ~game.rgps[p].folded}
    IN IF Cardinality(left_to_act) = 1 /\ remain = {}
       THEN set_is_finished(game)
       ELSE IF left_to_act = {}
       THEN IF Cardinality(remain) = 1 \/ game.current_round = RIVER
            THEN set_is_finished(game)
            ELSE _finish_betting_round(game, remain, d)
       ELSE NextToAct(game, o, left_to_act)

\* apply_action_result that treats a fold as a call: the seat pays the call
\* cost of the result and stays in the hand.
apply_action_result_foldcalls(game, o, action_result, d) ==
    IF action_result.is_fold \/ action_result.is_passive
    THEN AfterAct(act_passive(game, o, action_result.call_cost), o, d)
    ELSE IF action_result.is_aggressive THEN AfterAct(act_aggressive(game, o, action_result.raise_total), o, d)
    ELSE Raise("ValueError", game)

\* apply_action_result that treats a bet or raise as a call.
apply_action_result_raisecalls(game, o, action_result, d) ==
    IF action_result.is_fold THEN AfterAct(act_fold(game, o), o, d)
    ELSE IF action_result.is_passive \/ action_result.is_aggressive
    THEN AfterAct(act_passive(game, o, action_result.call_cost), o, d)
    ELSE Raise("ValueError", game)

\* apply_action_result that folds the seat on a passive result.
apply_action_result_callfolds(game, o, action_result, d) ==
    IF action_result.is_fold \/ action_result.is_passive THEN AfterAct(act_fold(game, o), o, d)
    ELSE IF action_result.is_aggressive THEN AfterAct(act_aggressive(game, o, action_result.raise_total), o, d)
    ELSE Raise("ValueError", game)

\* apply_action_result that takes whatever is not a call or a raise for a fold.
apply_action_result_elsefolds(game, o, action_result, d) ==
    IF action_result.is_passive THEN AfterAct(act_passive(game, o, action_result.call_cost), o, d)
    ELSE IF action_result.is_aggressive THEN AfterAct(act_aggressive(game, o, action_result.raise_total), o, d)
    ELSE AfterAct(act_fold(game, o), o, d)

apply_action_result(game, o, action_result, d) ==
    IF action_result.is_fold THEN AfterAct(act_fold(game, o), o, d)
    ELSE IF action_result.is_passive THEN AfterAct(act_passive(game, o, action_result.call_cost), o, d)
    ELSE IF action_result.is_aggressive THEN AfterAct(act_aggressive(game, o, action_result.raise_total), o, d)
    ELSE Raise("ValueError", game)

-----------------------------------------------------------------------------
(* Outcome Resolver (rvr.poker.action.WhatCouldBe) *)

\* No further action is possible: the hand is over.
HandOver(game) ==
    LET left_to_act == {p \in Orders(game) : game.rgps[p].left_to_act}
        remain == {p \in Orders(game) : ~game.rgps[p].left_to_act /\ ~game.rgps[p].folded}
    IN \/ Cardinality(left_to_act) = 1 /\ remain = {}
       \/ left_to_act = {} /\ (Cardinality(remain) <= 1 \/ game.current_round = RIVER)

\* consider_all: which branches of the range action leave further play.
fold_continue(game, o) == ~HandOver(act_fold(game, o))

passive_continue(game, o, options) == ~HandOver(act_passive(game, o, options.call_cost))

\* calculate_what_will_be: the single result, and the range that remains.
calculate_what_will_be(game, o, range_action, options) ==
    IF range_action.aggressive_range # NOTHING
    THEN [action_result |-> ActionResult_raise_to(range_action.raise_total, options.is_raise),
          range |-> range_action.aggressive_range]
    ELSE IF range_action.passive_range # NOTHING /\ range_action.fold_range # NOTHING
            /\ ~fold_continue(game, o) /\ ~passive_continue(game, o, options)
    THEN [action_result |-> ActionResult_terminate, range |-> game.rgps[o].range]
    ELSE IF range_action.passive_range # NOTHING
    THEN [action_result |-> ActionResult_call(options.call_cost),
          range |-> range_action.passive_range]
    ELSE [action_result |-> ActionResult_fold, range |-> range_action.fold_range]

WhatCouldBe(game, o, range_action, options) ==
    LET will_be == calculate_what_will_be(game, o, range_action, options)
    IN [action_result |-> will_be.action_result,
        game |-> [game EXCEPT !.rgps[o].range = will_be.range]]

-----------------------------------------------------------------------------
(* perform_action and timeouts (api.py) *)

APIError(description) == [error |-> description]

ERR_UNKNOWN == APIError("Internal error")

ERR_NO_SUCH_USER == APIError("No such user")

ERR_NO_SUCH_OPEN_GAME == APIError("No such open game")

ERR_JOIN_GAME_ALREADY_IN == APIError("User is already registered")

ERR_JOIN_GAME_GAME_FULL == APIError("Game is full")

ERR_USER_NOT_IN_GAME == APIError("User is not in the specified game")

ERR_DELETE_USER_PLAYING == APIError("User is playing")

ERR_NO_SUCH_RUNNING_GAME == APIError("No such running game")

ERR_NOT_USERS_TURN == APIError("It's not that user's turn.")

ERR_INVALID_RAISE_TOTAL == APIError("Invalid raise total.")

ERR_INVALID_RANGES == APIError("Invalid ranges or raise size.")

IsAPIError(result) == "error" \in DOMAIN result

\* _perform_action without the is_terminate case: every result is recorded
\* and applied.
Resolved_always(game, o, what_could_be, d) ==
    LET action_result == what_could_be.action_result
        rgp == what_could_be.game.rgps[o]
        recorded == _record_action_result(what_could_be.game, o, action_result)
    IN IF IsException(recorded) THEN recorded
       ELSE apply_action_result(_record_rgp_range(recorded, o, rgp.range), o, action_result, d)

\* _perform_action that records the resulting range before the action result.
Resolved_rangefirst(game, o, what_could_be, d) ==
    LET action_result == what_could_be.action_result
        rgp == what_could_be.game.rgps[o]
    IN IF action_result.is_terminate
       THEN [set_is_finished(what_could_be.game) EXCEPT !.rgps[o].left_to_act = FALSE]
       ELSE apply_action_result(
                _record_action_result(_record_rgp_range(what_could_be.game, o, rgp.range),
                                      o, action_result),
                o, action_result, d)

\* The result applied (or the hand terminated), with its history records.
Resolved(game, o, what_could_be, d) ==
    LET action_result == what_could_be.action_result
        rgp == what_could_be.game.rgps[o]
    IN IF action_result.is_terminate
       THEN [set_is_finished(what_could_be.game) EXCEPT !.rgps[o].left_to_act = FALSE]
       ELSE apply_action_result(
                _record_rgp_range(_record_action_result(what_could_be.game, o, action_result),
                                  o, rgp.range),
                o, action_result, d)

_perform_action(game, o, range_action, current_options, d) ==
    LET recorded == _record_range_action(game, o, range_action,
                                         current_options.can_check, current_options.is_raise)
        what_could_be == WhatCouldBe(recorded, o, range_action, current_options)
        resolved == Resolved(recorded, o, what_could_be, d)
    IN IF IsException(resolved) THEN resolved
       ELSE [game |-> IF is_finished(resolved) THEN finish_game(resolved) ELSE resolved,
             result |-> what_could_be.action_result]

\* The steps of _perform_action, in the order it takes them.
Steps == {"record", "resolve", "apply", "finish", "notify"}

\* _perform_action in which the given step raises: the session holds the work
\* of the steps before it.
_perform_action_failing(game, o, range_action, current_options, d, step) ==
    LET recorded == _record_range_action(game, o, range_action,
                                         current_options.can_check, current_options.is_raise)
        what_could_be == WhatCouldBe(recorded, o, range_action, current_options)
        action_result == what_could_be.action_result
        results_recorded ==
            IF action_result.is_terminate THEN what_could_be.game
            ELSE _record_rgp_range(_record_action_result(what_could_be.game, o, action_result),
                                   o, what_could_be.game.rgps[o].range)
        resolved == Resolved(recorded, o, what_could_be, d)
        finished == IF is_finished(resolved) THEN finish_game(resolved) ELSE resolved
    IN CASE step = "record" -> Raise("Exception", game)
         [] step = "resolve" -> Raise("Exception", recorded)
         [] step = "apply" -> Raise("Exception", results_recorded)
         [] step = "finish" -> Raise("Exception", resolved)
         [] step = "notify" -> Raise("Exception", finished)

\* The api decorator without the rollback: what the session holds when the
\* exception is raised stays.
api_norollback(games, outcome) ==
    IF IsException(outcome) THEN [running_games |-> outcome.running_games, result |-> ERR_UNKNOWN]
    ELSE IF IsAPIError(outcome.result) THEN [running_games |-> games, result |-> outcome.result]
    ELSE outcome

\* The api decorator: an error result or an exception rolls the session back.
api(games, outcome) ==
    IF IsException(outcome) THEN [running_games |-> games, result |-> ERR_UNKNOWN]
    ELSE IF IsAPIError(outcome.result) THEN [running_games |-> games, result |-> outcome.result]
    ELSE outcome

\* perform_action that goes on to _perform_action without looking at is_valid.
ValidatedAction_unchecked(games, gameid, range_action, d) ==
    LET game == games[gameid]
        rgp == current_rgp(game)
        current_options == calculate_current_options(game, rgp)
        performed == _perform_action(game, rgp, range_action, current_options, d)
    IN IF IsException(performed)
       THEN [exception |-> performed.exception,
             running_games |-> [games EXCEPT ![gameid] = performed.game]]
       ELSE [running_games |-> [games EXCEPT ![gameid] = performed.game],
             result |-> performed.result]

\* perform_action once the game is found and it is the user's turn.
ValidatedAction(games, gameid, range_action, d) ==
    LET game == games[gameid]
        rgp == current_rgp(game)
        current_options == calculate_current_options(game, rgp)
        fits == range_action_fits(range_action, current_options, game.rgps[rgp].range)
    IN IF ~fits.is_valid THEN [running_games |-> games, result |-> ERR_INVALID_RANGES]
       ELSE LET performed == _perform_action(game, rgp, range_action, current_options, d)
            IN IF IsException(performed)
               THEN [exception |-> performed.exception,
                     running_games |-> [games EXCEPT ![gameid] = performed.game]]
               ELSE [running_games |-> [games EXCEPT ![gameid] = performed.game],
                     result |-> performed.result]

\* perform_action that records the range action before it validates it and
\* commits the session when it returns the validation error.
perform_action_recordfirst(games, gameid, userid, range_action, d) ==
    IF gameid \notin DOMAIN games
    THEN [running_games |-> games, result |-> ERR_NO_SUCH_RUNNING_GAME]
    ELSE IF games[gameid].current_userid = userid
    THEN LET game == games[gameid]
             rgp == current_rgp(game)
             current_options == calculate_current_options(game, rgp)
             fits == range_action_fits(range_action, current_options, game.rgps[rgp].range)
             recorded == _record_range_action(game, rgp, range_action,
                                              current_options.can_check, current_options.is_raise)
         IN IF ~fits.is_valid
            THEN [running_games |-> [games EXCEPT ![gameid] = recorded],
                  result |-> ERR_INVALID_RANGES]
            ELSE api(games, ValidatedAction(games, gameid, range_action, d))
    ELSE [running_games |-> games, result |-> ERR_NOT_USERS_TURN]

\* perform_action that checks that the game has a user on turn, not that the
\* caller is that user.
perform_action_anyuser(games, gameid, userid, range_action, d) ==
    api(games,
        IF gameid \notin DOMAIN games
        THEN [running_games |-> games, result |-> ERR_NO_SUCH_RUNNING_GAME]
        ELSE IF games[gameid].current_userid # None
        THEN ValidatedAction(games, gameid, range_action, d)
        ELSE [running_games |-> games, result |-> ERR_NOT_USERS_TURN])

perform_action(games, gameid, userid, range_action, d) ==
    api(games,
        IF gameid \notin DOMAIN games
        THEN [running_games |-> games, result |-> ERR_NO_SUCH_RUNNING_GAME]
        ELSE IF games[gameid].current_userid = userid
        THEN ValidatedAction(games, gameid, range_action, d)
        ELSE [running_games |-> games, result |-> ERR_NOT_USERS_TURN])

\* perform_action in which the given step of _perform_action raises.
perform_action_failing(games, gameid, userid, range_action, d, step) ==
    api(games,
        IF gameid \notin DOMAIN games
        THEN [running_games |-> games, result |-> ERR_NO_SUCH_RUNNING_GAME]
        ELSE IF games[gameid].current_userid = userid
        THEN LET game == games[gameid]
                 rgp == current_rgp(game)
                 current_options == calculate_current_options(game, rgp)
                 fits == range_action_fits(range_action, current_options, game.rgps[rgp].range)
                 performed == _perform_action_failing(game, rgp, range_action,
                                                      current_options, d, step)
             IN IF ~fits.is_valid THEN [running_games |-> games, result |-> ERR_INVALID_RANGES]
                ELSE [exception |-> performed.exception,
                      running_games |-> [games EXCEPT ![gameid] = performed.game]]
        ELSE [running_games |-> games, result |-> ERR_NOT_USERS_TURN])

ActionDetails(fold_raw, passive_raw, aggressive_raw, raise_total) ==
    [fold_range |-> fold_raw, passive_range |-> passive_raw,
     aggressive_range |-> aggressive_raw, raise_total |-> raise_total]

\* _timeout that goes straight to the fold, without the Timeout record.
_timeout_unrecorded(game, d) ==
    LET rgp == current_rgp(game)
        current_options == calculate_current_options(game, rgp)
        range_action == ActionDetails(game.rgps[rgp].range, NOTHING, NOTHING, 0)
    IN _perform_action(game, rgp, range_action, current_options, d)

\* _timeout that folds every hand there is, not the current range.
_timeout_anything(game, d) ==
    LET rgp == current_rgp(game)
        current_options == calculate_current_options(game, rgp)
        range_action == ActionDetails(ANYTHING, NOTHING, NOTHING, 0)
    IN _perform_action(_record_timeoout(game, rgp), rgp, range_action, current_options, d)

\* _timeout that checks or calls with the current range instead of folding it.
_timeout_passive(game, d) ==
    LET rgp == current_rgp(game)
        current_options == calculate_current_options(game, rgp)
        range_action == ActionDetails(NOTHING, game.rgps[rgp].range, NOTHING, 0)
    IN _perform_action(_record_timeoout(game, rgp), rgp, range_action, current_options, d)

\* Time out the current player by folding the current range.
_timeout(game, d) ==
    LET rgp == current_rgp(game)
        current_options == calculate_current_options(game, rgp)
        range_action == ActionDetails(game.rgps[rgp].range, NOTHING, NOTHING, 0)
    IN _perform_action(_record_timeoout(game, rgp), rgp, range_action, current_options, d)

\* process_timeouts that records a timeout in every expired game, finished or
\* not.
process_timeouts_finishedtoo(games, expired, d) ==
    LET due == {gameid \in DOMAIN games : gameid \in expired}
        timed == [gameid \in DOMAIN games |->
                    IF gameid \notin due THEN [game |-> games[gameid]]
                    ELSE IF games[gameid].current_userid # None THEN _timeout(games[gameid], d)
                    ELSE [game |-> _record_hand_history_item(games[gameid],
                                       [type |-> "Timeout", userid |-> None])]]
    IN IF \E gameid \in DOMAIN games : IsException(timed[gameid])
       THEN api(games, [exception |-> "ValueError",
                        running_games |-> [gameid \in DOMAIN games |-> timed[gameid].game]])
       ELSE api(games, [running_games |-> [gameid \in DOMAIN games |-> timed[gameid].game],
                        result |-> [count |-> Cardinality(due)]])

\* process_timeouts: `expired' are the games idle for more than seven days.
process_timeouts(games, expired, d) ==
    LET due == {gameid \in DOMAIN games : games[gameid].current_userid # None /\ gameid \in expired}
        timed == [gameid \in DOMAIN games |->
                    IF gameid \in due THEN _timeout(games[gameid], d) ELSE [game |-> games[gameid]]]
    IN IF \E gameid \in DOMAIN games : IsException(timed[gameid])
       THEN api(games, [exception |-> "ValueError",
                        running_games |-> [gameid \in DOMAIN games |-> timed[gameid].game]])
       ELSE api(games, [running_games |-> [gameid \in DOMAIN games |-> timed[gameid].game],
                        result |-> [count |-> Cardinality(due)]])

-----------------------------------------------------------------------------
(* Reading a game: get_public_game, get_private_game (api.py) *)

\* The tables of history items, one per kind of item.
MAP_TABLE_DTO == <<"UserRange", "RangeAction", "ActionResult", "Board", "Timeout">>

\* GameItem.should_include_for: a range and a range action are for their user
\* only, every other item is for everyone.
should_include_for(dto, userid) ==
    IF dto.item.type \in {"UserRange", "RangeAction"} THEN dto.item.userid = userid
    ELSE TRUE

RECURSIVE concatenate(_)
concatenate(lists) ==
    IF lists = <<>> THEN <<>> ELSE Head(lists) \o concatenate(Tail(lists))

\* The child put after the last of the sorted ones whose order is not greater.
InsertByOrder(sorted, child) ==
    LET k == Cardinality({j \in DOMAIN sorted : sorted[j].order <= child.order})
    IN SubSeq(sorted, 1, k) \o <<child>> \o SubSeq(sorted, k + 1, Len(sorted))

\* sorted(..., key=lambda c: c.order)
RECURSIVE SortedByOrder(_)
SortedByOrder(children) ==
    IF children = <<>> THEN <<>>
    ELSE InsertByOrder(SortedByOrder(SubSeq(children, 1, Len(children) - 1)),
                       children[Len(children)])

\* _get_history_items that hands out every item whoever asks.
_get_history_items_unfiltered(game, userid) ==
    LET child_items == [t \in DOMAIN MAP_TABLE_DTO |->
                          SelectSeq(game.history, LAMBDA c : c.item.type = MAP_TABLE_DTO[t])]
    IN SortedByOrder(concatenate(child_items))

\* _get_history_items: the game's items in order, with private data only for
\* `userid' unless the game is finished.
_get_history_items(game, userid) ==
    LET child_items == [t \in DOMAIN MAP_TABLE_DTO |->
                          SelectSeq(game.history, LAMBDA c : c.item.type = MAP_TABLE_DTO[t])]
        all_child_items == SortedByOrder(concatenate(child_items))
    IN SelectSeq(all_child_items,
                 LAMBDA dto : is_finished(game) \/ should_include_for(dto, userid))

_get_game(games, gameid, userid) ==
    IF userid # None /\ userid \notin Users THEN ERR_NO_SUCH_USER
    ELSE IF gameid \notin DOMAIN games THEN ERR_NO_SUCH_RUNNING_GAME
    ELSE LET game == games[gameid]
         IN [history_items |-> _get_history_items(game, userid),
             current_options |-> IF game.current_userid = None THEN None
                                 ELSE calculate_current_options(game, current_rgp(game))]

\* get_public_game that asks for the items of the user on turn.
get_public_game_asturn(games, gameid) ==
    api(games, [running_games |-> games,
                result |-> _get_game(games, gameid,
                                     IF gameid \in DOMAIN games THEN games[gameid].current_userid
                                     ELSE None)]).result

get_public_game(games, gameid) ==
    api(games, [running_games |-> games, result |-> _get_game(games, gameid, None)]).result

get_private_game(games, gameid, userid) ==
    api(games, [running_games |-> games, result |-> _get_game(games, gameid, userid)]).result

-----------------------------------------------------------------------------
(* Starting a game (api.py) *)

\* _start_game: the running game made from a full open game. The seats are
\* the pairs of zip(all_ogps, situation_players), as many as the shorter of
\* the two; all_ogps[situation.current_player_num] raises IndexError when
\* there is no such participant.
_start_game(gameid, situation, all_ogps, d) ==
    LET situation_players == situation.players
        player_to_dealt == deal_from_ranges(
            [i \in DOMAIN situation_players |-> situation_players[i].range_raw],
            situation.board_raw, d)
        running_game ==
            [gameid |-> gameid,
             next_hh |-> 0,
             situation |-> situation.description,
             current_userid |-> all_ogps[situation.current_player + 1],
             board |-> situation.board_raw,
             current_round |-> situation.current_round,
             pot_pre |-> situation.pot_pre,
             increment |-> situation.increment,
             bet_count |-> situation.bet_count,
             history |-> <<>>,
             rgps |-> [order \in 0 .. Min({Len(all_ogps), Len(situation_players)}) - 1 |->
                        [userid |-> all_ogps[order + 1],
                         order |-> order,
                         stack |-> situation_players[order + 1].stack,
                         contributed |-> situation_players[order + 1].contributed,
                         range |-> situation_players[order + 1].range_raw,
                         left_to_act |-> situation_players[order + 1].left_to_act,
                         folded |-> FALSE,
                         cards_dealt |-> player_to_dealt[order + 1]]]]
    IN IF situation.current_player + 1 > Len(all_ogps) THEN Raise("IndexError", None)
       ELSE _deal_to_board(running_game, d)

-----------------------------------------------------------------------------
(* Open games: join_game, leave_game, ensure_open_games (api.py) *)

\* What a call returns when it is not an error: a value, or None.
Returned(value) == [returned |-> value]

\* The tables of the database that the open games touch.
Database(open, running, seq, registered) ==
    [open_games |-> open, running_games |-> running, gameid_seq |-> seq, users |-> registered]

\* Situation.participants
participants(situation) == Len(situation.players)

\* What a call has done: `db' is what the session holds, `committed' what its
\* last commit wrote.
Outcome(db, committed, result) == [db |-> db, committed |-> committed, result |-> result]

\* The api decorator on a call that commits on its way: an exception or an
\* error answer rolls the session back to its last commit.
api_db(db, outcome) ==
    IF IsException(outcome) THEN [db |-> outcome.committed, result |-> ERR_UNKNOWN]
    ELSE IF IsAPIError(outcome.result) THEN [db |-> outcome.committed, result |-> outcome.result]
    ELSE [db |-> outcome.db, result |-> outcome.result]

\* The empty open games of the situation.
empty_open(db, situation) ==
    {gameid \in DOMAIN db.open_games :
        /\ db.open_games[gameid].situation = situation.description
        /\ db.open_games[gameid].participants = 0}

\* ensure_open_games for one situation that only ever adds an open game.
EnsureSituation_addonly(db, situation, keep) ==
    IF Cardinality(empty_open(db, situation)) = 0
    THEN LET new_game == [gameid |-> db.gameid_seq + 1,
                          situation |-> situation.description,
                          participants |-> 0,
                          ogps |-> <<>>]
         IN [db EXCEPT !.open_games = (new_game.gameid :> new_game) @@ @,
                       !.gameid_seq = @ + 1]
    ELSE db

\* ensure_open_games for one situation: of several empty open games, all but
\* the last of the query's answer are deleted (`keep' says which one the
\* unordered query puts last); with none, one is added.
EnsureSituation(db, situation, keep) ==
    LET empty == empty_open(db, situation)
    IN IF Cardinality(empty) > 1
       THEN LET last == IF keep = "lowest" THEN Min(empty) ELSE Max(empty)
            IN [db EXCEPT !.open_games =
                    [gameid \in DOMAIN @ \ (empty \ {last}) |-> @[gameid]]]
       ELSE IF Cardinality(empty) = 0
       THEN LET new_game == [gameid |-> db.gameid_seq + 1,
                             situation |-> situation.description,
                             participants |-> 0,
                             ogps |-> <<>>]
            IN [db EXCEPT !.open_games = (new_game.gameid :> new_game) @@ @,
                          !.gameid_seq = @ + 1]
       ELSE db

ensure_open_games(db, keep) ==
    api_db(db, Outcome(EnsureSituation(EnsureSituation(db, _create_hu, keep), _create_three, keep),
                       db, Returned(None)))

\* The open games without the one given.
Deleted(open, gameid) == [g \in DOMAIN open \ {gameid} |-> open[g]]

\* join_game that starts the running game and keeps the open game, the new
\* participant counted in.
JoinAttempt_keepopen(db, userid, gameid, d) ==
    IF gameid \notin DOMAIN db.open_games THEN [db |-> db, result |-> ERR_NO_SUCH_OPEN_GAME]
    ELSE IF userid \notin db.users THEN [db |-> db, result |-> ERR_NO_SUCH_USER]
    ELSE LET game == db.open_games[gameid]
             situation == CHOOSE situation \in Situations :
                              situation.description = game.situation
             start_game == game.participants + 1 = participants(situation)
             added == [db EXCEPT !.open_games[gameid] =
                         [@ EXCEPT !.participants = @ + 1, !.ogps = Append(@, userid)]]
         IN IF userid \in SeqToSet(game.ogps)
            THEN [db |-> db, result |-> ERR_JOIN_GAME_ALREADY_IN]
            ELSE IF game.participants + 1 > participants(situation)
            THEN [db |-> db, result |-> ERR_JOIN_GAME_GAME_FULL]
            ELSE IF start_game
            THEN LET running_game == _start_game(gameid, situation,
                                                 Append(game.ogps, userid), d)
                 IN IF IsException(running_game)
                    THEN [exception |-> running_game.exception, committed |-> db]
                    ELSE [db |-> [added EXCEPT
                                    !.running_games = (gameid :> running_game) @@ @],
                          result |-> Returned(gameid)]
            ELSE [db |-> added, result |-> Returned(None)]

\* join_game up to its commit: the error it answers, or what the session
\* holds and the running game started, if any.
JoinAttempt(db, userid, gameid, d) ==
    IF gameid \notin DOMAIN db.open_games THEN [db |-> db, result |-> ERR_NO_SUCH_OPEN_GAME]
    ELSE IF userid \notin db.users THEN [db |-> db, result |-> ERR_NO_SUCH_USER]
    ELSE LET game == db.open_games[gameid]
             situation == CHOOSE situation \in Situations :
                              situation.description = game.situation
             start_game == game.participants + 1 = participants(situation)
         IN IF userid \in SeqToSet(game.ogps)
            THEN [db |-> db, result |-> ERR_JOIN_GAME_ALREADY_IN]
            ELSE IF game.participants + 1 > participants(situation)
            THEN [db |-> db, result |-> ERR_JOIN_GAME_GAME_FULL]
            ELSE IF start_game
            THEN LET running_game == _start_game(gameid, situation,
                                                 Append(game.ogps, userid), d)
                 IN IF IsException(running_game)
                    THEN [exception |-> running_game.exception, committed |-> db]
                    ELSE [db |-> [db EXCEPT
                                    !.open_games = Deleted(@, gameid),
                                    !.running_games = (gameid :> running_game) @@ @],
                          result |-> Returned(gameid)]
            ELSE [db |-> [db EXCEPT !.open_games[gameid] =
                            [@ EXCEPT !.participants = @ + 1, !.ogps = Append(@, userid)]],
                  result |-> Returned(None)]

\* join_game that leaves the open games as they are once it has committed.
Joined_unensured(db, userid, gameid, d, keep) ==
    LET attempt == JoinAttempt(db, userid, gameid, d)
    IN api_db(db, IF IsException(attempt) THEN attempt
                  ELSE IF IsAPIError(attempt.result) THEN Outcome(db, db, attempt.result)
                  ELSE Outcome(attempt.db, attempt.db, attempt.result))

\* join_game when its commit goes through.
Joined(db, userid, gameid, d, keep) ==
    LET attempt == JoinAttempt(db, userid, gameid, d)
    IN api_db(db, IF IsException(attempt) THEN attempt
                  ELSE IF IsAPIError(attempt.result) THEN Outcome(db, db, attempt.result)
                  ELSE Outcome(ensure_open_games(attempt.db, keep).db,
                               attempt.db, attempt.result))

\* leave_game that leaves the open games as they are once it has committed.
leave_game_unensured(db, userid, gameid, keep) ==
    IF gameid \notin DOMAIN db.open_games THEN api_db(db, Outcome(db, db, ERR_NO_SUCH_OPEN_GAME))
    ELSE IF userid \notin db.users THEN api_db(db, Outcome(db, db, ERR_NO_SUCH_USER))
    ELSE IF userid \notin SeqToSet(db.open_games[gameid].ogps)
    THEN api_db(db, Outcome(db, db, ERR_USER_NOT_IN_GAME))
    ELSE LET left == [db EXCEPT !.open_games[gameid] =
                        [@ EXCEPT !.participants = @ - 1,
                                  !.ogps = SelectSeq(@, LAMBDA ogp : ogp # userid)]]
         IN api_db(db, Outcome(left, left, Returned(None)))

leave_game(db, userid, gameid, keep) ==
    IF gameid \notin DOMAIN db.open_games THEN api_db(db, Outcome(db, db, ERR_NO_SUCH_OPEN_GAME))
    ELSE IF userid \notin db.users THEN api_db(db, Outcome(db, db, ERR_NO_SUCH_USER))
    ELSE IF userid \notin SeqToSet(db.open_games[gameid].ogps)
    THEN api_db(db, Outcome(db, db, ERR_USER_NOT_IN_GAME))
    ELSE LET left == [db EXCEPT !.open_games[gameid] =
                        [@ EXCEPT !.participants = @ - 1,
                                  !.ogps = SelectSeq(@, LAMBDA ogp : ogp # userid)]]
         IN api_db(db, Outcome(ensure_open_games(left, keep).db, left, Returned(None)))

\* delete_user that takes the user out of the count of participants as well.
delete_user_counted(db, userid) ==
    IF userid \notin db.users THEN api_db(db, Outcome(db, db, ERR_NO_SUCH_USER))
    ELSE IF \E gameid \in DOMAIN db.running_games :
               \E o \in DOMAIN db.running_games[gameid].rgps :
                  db.running_games[gameid].rgps[o].userid = userid
    THEN api_db(db, Outcome(db, db, ERR_DELETE_USER_PLAYING))
    ELSE LET deleted ==
                [db EXCEPT
                    !.open_games = [gameid \in DOMAIN @ |->
                        [@[gameid] EXCEPT
                            !.participants = Len(SelectSeq(db.open_games[gameid].ogps,
                                                           LAMBDA ogp : ogp # userid)),
                            !.ogps = SelectSeq(@, LAMBDA ogp : ogp # userid)]],
                    !.users = @ \ {userid}]
         IN api_db(db, Outcome(deleted, db, Returned(TRUE)))

\* delete_user: a user in no running game is deleted, and with the user the
\* user's registrations in open games; the games' participants stay as they
\* are.
delete_user(db, userid) ==
    IF userid \notin db.users THEN api_db(db, Outcome(db, db, ERR_NO_SUCH_USER))
    ELSE IF \E gameid \in DOMAIN db.running_games :
               \E o \in DOMAIN db.running_games[gameid].rgps :
                  db.running_games[gameid].rgps[o].userid = userid
    THEN api_db(db, Outcome(db, db, ERR_DELETE_USER_PLAYING))
    ELSE LET deleted ==
                [db EXCEPT
                    !.open_games = [gameid \in DOMAIN @ |->
                        [@[gameid] EXCEPT !.ogps = SelectSeq(@, LAMBDA ogp : ogp # userid)]],
                    !.users = @ \ {userid}]
         IN api_db(db, Outcome(deleted, db, Returned(TRUE)))

\* The calls of another client that may commit while a join_game is under way.
Rivals ==
    {[op |-> "none", userid |-> None]}
        \cup {[op |-> op, userid |-> userid] : op \in {"join", "leave"}, userid \in Users}

\* The database once the rival's call on the open game has committed.
Raced(db, gameid, d, keep, rival) ==
    IF rival.op = "join" THEN Joined(db, rival.userid, gameid, d, keep).db
    ELSE IF rival.op = "leave" THEN leave_game(db, rival.userid, gameid, keep).db
    ELSE db

\* join_game: when a rival has committed on the open game in between, the
\* commit raises IntegrityError, the session is rolled back and the join is
\* tried again; the answer of that second join_game call (a game id, None or
\* an APIError) is then taken for a running game and asked for its gameid.
join_game(db, userid, gameid, d, keep, rival) ==
    LET attempt == JoinAttempt(db, userid, gameid, d)
        raced == Raced(db, gameid, d, keep, rival)
    IN IF IsException(attempt) \/ IsAPIError(attempt.result) \/ raced = db
       THEN Joined(db, userid, gameid, d, keep)
       ELSE LET running_game == Joined(raced, userid, gameid, d, keep)
                ensured == ensure_open_games(running_game.db, keep).db
            IN api_db(db, IF running_game.result # Returned(None)
                          THEN [exception |-> "AttributeError", committed |-> ensured]
                          ELSE Outcome(ensured, running_game.db, Returned(None)))

(* The range actions submitted *)

RaiseTotals(options) ==
    {options.min_raise_total, options.min_raise_total + 2, options.max_raise_total}

\* Range actions that partition `range': the whole range on one branch, or
\* its top combination(s) split off to the more committal branch(es).
Partitions(range, options) ==
    LET top == IF range = {} THEN {} ELSE {Top(range)}
        rest == range \ top
        second == IF rest = {} THEN {} ELSE {Top(rest)}
    IN {ActionDetails(range, NOTHING, NOTHING, 0),
        ActionDetails(NOTHING, range, NOTHING, 0),
        ActionDetails(rest, top, NOTHING, 0),
        ActionDetails(rest, NOTHING, top, options.min_raise_total),
        ActionDetails(NOTHING, rest, top, options.min_raise_total + 2),
        ActionDetails(rest \ second, second, top, options.min_raise_total)}
       \cup {ActionDetails(NOTHING, NOTHING, range, total) : total \in RaiseTotals(options)}

\* Range actions that do not partition `range', or carry an illegal total.
Misfits(range, options) ==
    LET top == IF range = {} THEN {} ELSE {Top(range)}
        rest == range \ top
        outside == IF ANYTHING \ range = {} THEN {} ELSE {Bottom(ANYTHING \ range)}
    IN {ActionDetails(range, top, NOTHING, 0),
        ActionDetails(rest, NOTHING, NOTHING, 0),
        ActionDetails(NOTHING, range \cup outside, NOTHING, 0),
        ActionDetails(NOTHING, range, top, options.min_raise_total),
        ActionDetails(NOTHING, NOTHING, range, options.min_raise_total - 1),
        ActionDetails(NOTHING, NOTHING, range, options.max_raise_total + 1),
        ActionDetails(rest, NOTHING, top, 0),
        ActionDetails(range, NOTHING, NOTHING, options.min_raise_total)}

\* The range actions of the hand so far that bet, raise or split the range.
Moves(game) ==
    Cardinality({i \in DOMAIN game.history :
        /\ game.history[i].item.type = "RangeAction"
        /\ \/ game.history[i].item.aggressive_range # NOTHING
           \/ game.history[i].item.fold_range # NOTHING /\ game.history[i].item.passive_range # NOTHING})

Seats(game, userid) == {o \in Orders(game) : game.rgps[o].userid = userid}

\* What `userid' may submit in game `gameid' in the current state.
RangeActions(gameid, userid) ==
    IF gameid \notin DOMAIN running_games
    THEN {ActionDetails(ANYTHING, NOTHING, NOTHING, 0)}
    ELSE LET game == running_games[gameid]
             o == IF Seats(game, userid) = {} THEN 0 ELSE Min(Seats(game, userid))
             range == game.rgps[o].range
             options == calculate_current_options(game, o)
         IN IF game.current_userid = userid
            THEN {a \in Partitions(range, options) :
                    \/ a.aggressive_range = NOTHING /\ (a.fold_range = NOTHING \/ a.passive_range = NOTHING)
                    \/ Moves(game) < MaxMoves}
                 \cup Misfits(range, options)
            ELSE {ActionDetails(range, NOTHING, NOTHING, 0),
                  ActionDetails(NOTHING, NOTHING, range, options.min_raise_total)}

-----------------------------------------------------------------------------
(* The actions: one per API call *)

Draws == 0 .. DealChoices - 1

\* The database sessions that can be open at the same time, and the state of
\* one that is not open.
Sessions == {1, 2}

NoSession == [read |-> <<>>, written |-> <<>>]

Init ==
    /\ running_games = <<>>
    /\ shuffle \in Draws
    /\ open_games = <<>>
    /\ gameid_seq = 0
    /\ users = Users
    /\ sessions = [s \in Sessions |-> NoSession]

\* join_game by the user who fills the open game's last seat.
StartGame(gameid, situation) ==
    /\ gameid \notin DOMAIN running_games
    /\ running_games' = (gameid :> _start_game(gameid, situation, JoinOrder, shuffle))
                            @@ running_games
    /\ UNCHANGED <<shuffle, open_games, gameid_seq, users, sessions>>

PerformAction(gameid, userid, range_action) ==
    /\ running_games' = perform_action(running_games, gameid, userid, range_action, shuffle).running_games
    /\ UNCHANGED <<shuffle, open_games, gameid_seq, users, sessions>>

ProcessTimeouts(expired) ==
    /\ running_games' = process_timeouts(running_games, expired, shuffle).running_games
    /\ UNCHANGED <<shuffle, open_games, gameid_seq, users, sessions>>

Next ==
    \/ \E gameid \in GameIds, situation \in Situations : StartGame(gameid, situation)
    \/ \E gameid \in GameIds, userid \in Users :
          \E range_action \in RangeActions(gameid, userid) :
             PerformAction(gameid, userid, range_action)
    \/ \E expired \in (SUBSET GameIds) \ {{}} : ProcessTimeouts(expired)

Spec == Init /\ [][Next]_vars

-----------------------------------------------------------------------------
(* Hands played with the whole range *)

\* What the seat on turn submits when every range action puts the whole range
\* on one branch: fold, check or call, or the minimum bet or raise.
WholeRangeActions(gameid, userid) ==
    IF gameid \notin DOMAIN running_games THEN {}
    ELSE LET game == running_games[gameid]
         IN IF game.current_userid # userid THEN {}
            ELSE LET o == current_rgp(game)
                     range == game.rgps[o].range
                     options == calculate_current_options(game, o)
                 IN {ActionDetails(range, NOTHING, NOTHING, 0),
                     ActionDetails(NOTHING, range, NOTHING, 0)}
                    \cup (IF Moves(game) < MaxRaises
                          THEN {ActionDetails(NOTHING, NOTHING, range, options.min_raise_total)}
                          ELSE {})

NextWhole ==
    \/ \E gameid \in GameIds, situation \in Situations : StartGame(gameid, situation)
    \/ \E gameid \in GameIds, userid \in Users :
          \E range_action \in WholeRangeActions(gameid, userid) :
             PerformAction(gameid, userid, range_action)

SpecWhole == Init /\ [][NextWhole]_vars

-----------------------------------------------------------------------------
(* Hands left to the clock *)

\* The scheduled process_timeouts finds the running games expired.
Expire == \E expired \in (SUBSET GameIds) \ {{}} : ProcessTimeouts(expired)

NextClock ==
    \/ NextWhole
    \/ Expire

\* The running games.
Games == DOMAIN running_games

\* The running games that are not finished.
Live == {gameid \in Games : ~is_finished(running_games[gameid])}

\* Weak fairness of the clock, WF_vars(Expire), with ENABLED <<Expire>>_vars
\* written as the state predicate it equals: process_timeouts changes a game
\* exactly when the game is unfinished.
ClockRuns == []<>(Live = {}) \/ []<><<Expire>>_vars

\* Players act or do not; the clock runs on: a seat left on turn is timed out
\* in the end.
SpecClock == Init /\ [][NextClock]_vars /\ ClockRuns

-----------------------------------------------------------------------------
(* The lobby: open games joined, left and refreshed *)

\* The database in the current state.
Db == Database(open_games, running_games, gameid_seq, users)

\* The call has answered and the database is as it left it.
Answered(call) ==
    /\ call.db.gameid_seq <= MaxGames
    /\ open_games' = call.db.open_games
    /\ running_games' = call.db.running_games
    /\ gameid_seq' = call.db.gameid_seq
    /\ users' = call.db.users
    /\ UNCHANGED <<shuffle, sessions>>

Keeps == {"lowest", "highest"}

\* The ids of the open games, and one that is no open game's.
OpenIds == DOMAIN open_games \cup {gameid_seq + 1}

JoinGame(userid, gameid, keep, rival) ==
    Answered(join_game(Db, userid, gameid, shuffle, keep, rival))

LeaveGame(userid, gameid, keep) ==
    Answered(leave_game(Db, userid, gameid, keep))

EnsureOpenGames(keep) ==
    Answered(ensure_open_games(Db, keep))

NextLobby ==
    \/ \E keep \in Keeps : EnsureOpenGames(keep)
    \/ \E userid \in Users, gameid \in OpenIds, keep \in Keeps, rival \in Rivals :
          JoinGame(userid, gameid, keep, rival)
    \/ \E userid \in Users, gameid \in OpenIds, keep \in Keeps :
          LeaveGame(userid, gameid, keep)

SpecLobby == Init /\ [][NextLobby]_vars

-----------------------------------------------------------------------------
(* Accounts: users deleted while open games fill *)

DeleteUser(userid) ==
    Answered(delete_user(Db, userid))

\* No other client's call commits while a join_game is under way.
NoRival == [op |-> "none", userid |-> None]

NextAccounts ==
    \/ \E keep \in Keeps : EnsureOpenGames(keep)
    \/ \E userid \in Users, gameid \in OpenIds, keep \in Keeps :
          JoinGame(userid, gameid, keep, NoRival)
    \/ \E userid \in Users, gameid \in OpenIds, keep \in Keeps :
          LeaveGame(userid, gameid, keep)
    \/ \E userid \in Users : DeleteUser(userid)

SpecAccounts == Init /\ [][NextAccounts]_vars

-----------------------------------------------------------------------------
(* Sessions in flight: calls that have read the same turn *)

\* The history rows the session inserts into game `gameid'.
Inserted(session, gameid) ==
    SubSeq(session.written[gameid].history,
           Len(session.read[gameid].history) + 1, Len(session.written[gameid].history))

\* The games the session has changed.
Changed(session) ==
    {gameid \in DOMAIN session.written :
        gameid \notin DOMAIN session.read \/ session.written[gameid] # session.read[gameid]}

\* No row is ever refused for its key.
KeyTaken_never(games, gameid, rows) == FALSE

\* GameHistoryBase's primary key (gameid, order): one of `rows' has the
\* sequence number of a row the game's history already holds.
KeyTaken(games, gameid, rows) ==
    \E i \in DOMAIN games[gameid].history, j \in DOMAIN rows :
        games[gameid].history[i].order = rows[j].order

\* The session's commit on the database as it is by then: the rows it
\* inserted are added and the rows it changed are written, unless a key is
\* taken, which fails the commit and rolls the session back.
commit(games, session) ==
    IF \E gameid \in Changed(session) : KeyTaken(games, gameid, Inserted(session, gameid))
    THEN games
    ELSE [gameid \in DOMAIN games |->
            IF gameid \in Changed(session)
            THEN [session.written[gameid] EXCEPT
                    !.history = games[gameid].history \o Inserted(session, gameid)]
            ELSE games[gameid]]

\* What the seat on turn submits in a session: the whole range folded, or
\* checked or called.
SessionActions(gameid, userid) ==
    {a \in WholeRangeActions(gameid, userid) : a.aggressive_range = NOTHING}

\* A client's perform_action has read the game and played the action in its
\* session; nothing is committed yet.
BeginAction(s, gameid, userid, range_action) ==
    /\ sessions[s] = NoSession
    /\ sessions' = [sessions EXCEPT ![s] =
            [read |-> running_games,
             written |-> perform_action(running_games, gameid, userid, range_action,
                                        shuffle).running_games]]
    /\ UNCHANGED <<running_games, shuffle, open_games, gameid_seq, users>>

\* The scheduled process_timeouts has read the games and folded the seats on
\* turn in its session; nothing is committed yet.
BeginTimeouts(s, expired) ==
    /\ sessions[s] = NoSession
    /\ running_games # <<>>
    /\ sessions' = [sessions EXCEPT ![s] =
            [read |-> running_games,
             written |-> process_timeouts(running_games, expired, shuffle).running_games]]
    /\ UNCHANGED <<running_games, shuffle, open_games, gameid_seq, users>>

\* The session commits, or fails to, and is closed.
Commit(s) ==
    /\ sessions[s] # NoSession
    /\ running_games' = commit(running_games, sessions[s])
    /\ sessions' = [sessions EXCEPT ![s] = NoSession]
    /\ UNCHANGED <<shuffle, open_games, gameid_seq, users>>

NextSessions ==
    \/ \E gameid \in GameIds, situation \in Situations : StartGame(gameid, situation)
    \/ \E s \in Sessions, gameid \in GameIds, userid \in Users :
          \E range_action \in SessionActions(gameid, userid) :
             BeginAction(s, gameid, userid, range_action)
    \/ \E s \in Sessions, expired \in (SUBSET GameIds) \ {{}} : BeginTimeouts(s, expired)
    \/ \E s \in Sessions : Commit(s)

SpecSessions == Init /\ [][NextSessions]_vars

-----------------------------------------------------------------------------
(* Properties *)

\* perform_action called in the current state.
Done(gameid, userid, range_action) ==
    perform_action(running_games, gameid, userid, range_action, shuffle)

\* Every range action of the menu for the seat on turn, whatever the hand so far.
Submissions(game) ==
    LET o == current_rgp(game)
        options == calculate_current_options(game, o)
    IN Partitions(game.rgps[o].range, options) \cup Misfits(game.rgps[o].range, options)

\* The history records the call appended to the game's history.
Appended(game, after) == SubSeq(after.history, Len(game.history) + 1, Len(after.history))

HistoryTypes(records) == [i \in DOMAIN records |-> records[i].item.type]

Chips(game) ==
    Sum([p \in Orders(game) |-> game.rgps[p].stack + game.rgps[p].contributed], Orders(game))
        + game.pot_pre

SituationChips(situation) ==
    Sum([i \in DOMAIN situation.players |->
            situation.players[i].stack + situation.players[i].contributed],
        DOMAIN situation.players) + situation.pot_pre

\* C1: in every reachable game the stacks, the contributions of the round and
\* pot_pre add up to the chips the situation started with, and every accepted
\* range action (a fold, a call, a raise, one that completes the betting round)
\* leaves that sum as it was before the action.
C1_ChipsConserved ==
    \A gameid \in Games :
        LET game == running_games[gameid]
        IN /\ Chips(game) = SituationChips(SituationOf(game))
           /\ ~is_finished(game) =>
                \A range_action \in Submissions(game) :
                    LET done == Done(gameid, game.current_userid, range_action)
                    IN ~IsAPIError(done.result) =>
                         Chips(done.running_games[gameid]) = Chips(game)

\* A game where a seat has folded and a completed betting round has swept a
\* bet and its call into pot_pre.
C1_Witness ==
    \E gameid \in Games :
        LET game == running_games[gameid]
        IN /\ \E p \in Orders(game) : game.rgps[p].folded
           /\ game.pot_pre > SituationOf(game).pot_pre
           /\ game.current_round # SituationOf(game).current_round
           /\ \E p \in Orders(game) : game.rgps[p].stack < SituationOf(game).players[p + 1].stack

\* C2: a game that is not finished has exactly one seat on turn (current_userid
\* is the userid of exactly one participant), and a game is finished exactly
\* when no seat is on turn.
C2_OneSeatOnTurn ==
    \A gameid \in Games :
        LET game == running_games[gameid]
            on_turn == Seats(game, game.current_userid)
        IN /\ ~is_finished(game) => Cardinality(on_turn) = 1
           /\ is_finished(game) <=> on_turn = {}

\* An unfinished three-handed game where the turn has passed to the last seat.
C2_Witness ==
    \E gameid \in Games :
        LET game == running_games[gameid]
        IN /\ ~is_finished(game)
           /\ Cardinality(Orders(game)) = 3
           /\ Seats(game, game.current_userid) = {2}
           /\ Len(game.history) > 1

NotPartition(range_action, range) ==
    \/ range_action.fold_range \cap range_action.passive_range # {}
    \/ range_action.fold_range \cap range_action.aggressive_range # {}
    \/ range_action.passive_range \cap range_action.aggressive_range # {}
    \/ range_action.fold_range \cup range_action.passive_range
            \cup range_action.aggressive_range # range

\* C3: perform_action by the seat on turn returns an error and applies nothing
\* for every range action whose sub-ranges overlap or whose union is not
\* exactly the seat's current range.
C3_NonPartitionRejected ==
    \A gameid \in Live :
        LET game == running_games[gameid]
            range == game.rgps[current_rgp(game)].range
        IN \A range_action \in Submissions(game) :
              NotPartition(range_action, range) =>
                 LET done == Done(gameid, game.current_userid, range_action)
                 IN IsAPIError(done.result) /\ done.running_games = running_games

\* After some play, the seat on turn submits overlapping sub-ranges, sub-ranges
\* that miss a combination and sub-ranges with a combination outside the range.
C3_Witness ==
    \E gameid \in Live :
        LET game == running_games[gameid]
            range == game.rgps[current_rgp(game)].range
            rejected(range_action) ==
                /\ range_action \in Submissions(game)
                /\ IsAPIError(Done(gameid, game.current_userid, range_action).result)
        IN /\ Len(game.history) > 3
           /\ Cardinality(range) > 1
           /\ rejected(ActionDetails(range, {Top(range)}, NOTHING, 0))
           /\ rejected(ActionDetails(range \ {Top(range)}, NOTHING, NOTHING, 0))
           /\ ANYTHING \ range # {}
           /\ rejected(ActionDetails(NOTHING, range \cup {Bottom(ANYTHING \ range)}, NOTHING, 0))

\* What any user may submit for a game: the user's own menu and the menu of
\* the seat on turn.
AnySubmission(gameid, userid) ==
    RangeActions(gameid, userid)
        \cup (IF gameid \in Live THEN Submissions(running_games[gameid]) ELSE {})

\* C4: a perform_action call that returns an error (not the user's turn, an
\* invalid partition, an invalid raise total, no such game) leaves every
\* running game exactly as it was: seats, pot_pre, board, street, bet_count,
\* seat on turn and history.
C4_RejectedUnchanged ==
    \A gameid \in GameIds, userid \in Users :
        \A range_action \in AnySubmission(gameid, userid) :
            LET done == Done(gameid, userid, range_action)
            IN IsAPIError(done.result) => done.running_games = running_games

\* A game in play where a call off turn, a call with an invalid partition and
\* a call with an invalid raise total are each rejected.
C4_Witness ==
    \E gameid \in Live :
        LET game == running_games[gameid]
            o == current_rgp(game)
            range == game.rgps[o].range
            options == calculate_current_options(game, o)
        IN /\ Len(game.history) > 3
           /\ Cardinality(range) > 1
           /\ options.can_raise
           /\ \E userid \in Users \ {game.current_userid} :
                 IsAPIError(Done(gameid, userid, ActionDetails(NOTHING, range, NOTHING, 0)).result)
           /\ IsAPIError(Done(gameid, game.current_userid,
                              ActionDetails(range, {Top(range)}, NOTHING, 0)).result)
           /\ IsAPIError(Done(gameid, game.current_userid,
                              ActionDetails(NOTHING, NOTHING, range,
                                            options.max_raise_total + 1)).result)

\* C5: perform_action for a user who is not the seat on turn of the game
\* returns ERR_NOT_USERS_TURN, whatever range action it carries (the user's own
\* range, a range action that is valid for the seat on turn, an invalid one).
C5_NotOnTurnRejected ==
    \A gameid \in Games, userid \in Users :
        userid # running_games[gameid].current_userid =>
            \A range_action \in AnySubmission(gameid, userid) :
                Done(gameid, userid, range_action).result = ERR_NOT_USERS_TURN

\* A three-handed game in play: a participant who is not on turn submits what
\* the seat on turn could validly submit, and is told it is not their turn.
C5_Witness ==
    \E gameid \in Live :
        LET game == running_games[gameid]
            range == game.rgps[current_rgp(game)].range
        IN /\ Len(game.history) > 3
           /\ range # {}
           /\ \E p \in Orders(game) :
                /\ game.rgps[p].userid # game.current_userid
                /\ ~game.rgps[p].folded
                /\ ActionDetails(NOTHING, range, NOTHING, 0)
                        \in AnySubmission(gameid, game.rgps[p].userid)
                /\ Done(gameid, game.rgps[p].userid,
                        ActionDetails(NOTHING, range, NOTHING, 0)).result = ERR_NOT_USERS_TURN
                /\ ~IsAPIError(Done(gameid, game.current_userid,
                                    ActionDetails(NOTHING, range, NOTHING, 0)).result)

\* The range action is one the validator accepts for the seat on turn.
Fits(game, range_action) ==
    LET o == current_rgp(game)
    IN range_action_fits(range_action, calculate_current_options(game, o),
                         game.rgps[o].range).is_valid

BadRaiseTotal(range_action, options) ==
    \/ /\ range_action.aggressive_range # NOTHING
       /\ \/ range_action.raise_total < options.min_raise_total
          \/ range_action.raise_total > options.max_raise_total
    \/ range_action.aggressive_range = NOTHING /\ range_action.raise_total # 0

\* C6: a range action that partitions the range but carries a raise total
\* outside [min_raise_total, max_raise_total] (or a nonzero total with nothing
\* to raise) fails with ERR_INVALID_RAISE_TOTAL, and that is not the error
\* returned for sub-ranges that do not partition the range.
C6_InvalidRaiseTotalError ==
    \A gameid \in Live :
        LET game == running_games[gameid]
            o == current_rgp(game)
            range == game.rgps[o].range
            options == calculate_current_options(game, o)
        IN \A range_action \in Submissions(game) :
              (/\ ~NotPartition(range_action, range)
               /\ range_action.aggressive_range # NOTHING => options.can_raise
               /\ BadRaiseTotal(range_action, options)) =>
                 LET result == Done(gameid, game.current_userid, range_action).result
                 IN /\ result = ERR_INVALID_RAISE_TOTAL
                    /\ \A other \in Submissions(game) :
                          NotPartition(other, range) =>
                             Done(gameid, game.current_userid, other).result # result

\* The record of the result among the records the call appended: it follows
\* the record of the range action.
ResultRecord(game, after) == Appended(game, after)[2].item

\* C7: a valid range action that puts the seat's whole (non-empty) range on one
\* branch is accepted and resolves to that branch: all fold to a fold, all
\* passive to a check or call of the call cost, all aggressive to a bet or
\* raise to exactly the submitted raise_total; that result, never terminate or
\* another branch, is returned, recorded and applied to the seat.
C7_SingleBranchResolves ==
    \A gameid \in Live :
        LET game == running_games[gameid]
            o == current_rgp(game)
            rgp == game.rgps[o]
            options == calculate_current_options(game, o)
        IN \A range_action \in Submissions(game) :
              LET done == Done(gameid, game.current_userid, range_action)
                  after == done.running_games[gameid]
              IN (rgp.range # {} /\ Fits(game, range_action)) =>
                    /\ range_action.fold_range = rgp.range =>
                          /\ done.result = ActionResult_fold
                          /\ ResultRecord(game, after).is_fold
                          /\ after.rgps[o].folded
                          /\ after.rgps[o].stack = rgp.stack
                    /\ range_action.passive_range = rgp.range =>
                          /\ done.result = ActionResult_call(options.call_cost)
                          /\ ResultRecord(game, after).is_passive
                          /\ ~after.rgps[o].folded
                          /\ after.rgps[o].stack = rgp.stack - options.call_cost
                    /\ range_action.aggressive_range = rgp.range =>
                          /\ done.result = ActionResult_raise_to(range_action.raise_total,
                                                                 options.is_raise)
                          /\ ResultRecord(game, after).is_aggressive
                          /\ ResultRecord(game, after).raise_total = range_action.raise_total
                          /\ ~after.rgps[o].folded
                          /\ after.rgps[o].stack
                                = rgp.stack + rgp.contributed - range_action.raise_total

\* A seat facing a bet with chips behind: its whole range folded is a fold, its
\* whole range called is a call of the bet, its whole range raised is a raise
\* to the submitted total.
C7_Witness ==
    \E gameid \in Live :
        LET game == running_games[gameid]
            o == current_rgp(game)
            range == game.rgps[o].range
            options == calculate_current_options(game, o)
            total == options.min_raise_total + 2
        IN /\ Cardinality(range) > 1
           /\ options.call_cost > 0
           /\ game.bet_count > 0
           /\ Len(game.history) > 3
           /\ Done(gameid, game.current_userid,
                   ActionDetails(range, NOTHING, NOTHING, 0)).result.is_fold
           /\ Done(gameid, game.current_userid,
                   ActionDetails(NOTHING, range, NOTHING, 0)).result.is_passive
           /\ ActionDetails(NOTHING, NOTHING, range, total) \in Submissions(game)
           /\ Done(gameid, game.current_userid,
                   ActionDetails(NOTHING, NOTHING, range, total)).result.raise_total = total

\* C8: a valid range action with a non-empty aggressive sub-range and at least
\* one other non-empty sub-range is accepted, and the one result returned,
\* recorded and applied is the bet or raise to the submitted raise_total.
C8_AggressiveBranchApplied ==
    \A gameid \in Live :
        LET game == running_games[gameid]
            o == current_rgp(game)
            rgp == game.rgps[o]
            options == calculate_current_options(game, o)
        IN \A range_action \in Submissions(game) :
              LET done == Done(gameid, game.current_userid, range_action)
                  after == done.running_games[gameid]
              IN (/\ range_action.aggressive_range # NOTHING
                  /\ \/ range_action.fold_range # NOTHING
                     \/ range_action.passive_range # NOTHING
                  /\ Fits(game, range_action)) =>
                    /\ done.result = ActionResult_raise_to(range_action.raise_total,
                                                           options.is_raise)
                    /\ HistoryTypes(Appended(game, after))
                          = <<"RangeAction", "ActionResult", "UserRange">>
                    /\ ResultRecord(game, after).is_aggressive
                    /\ ResultRecord(game, after).raise_total = range_action.raise_total
                    /\ after.rgps[o].contributed = range_action.raise_total
                    /\ after.rgps[o].stack
                          = rgp.stack + rgp.contributed - range_action.raise_total
                    /\ ~after.rgps[o].folded

\* A seat facing a bet splits its range three ways, and the raise to the
\* submitted total is what happens; the hand goes on.
C8_Witness ==
    \E gameid \in Live :
        LET game == running_games[gameid]
            o == current_rgp(game)
            range == game.rgps[o].range
            options == calculate_current_options(game, o)
            top == {Top(range)}
            second == {Top(range \ top)}
            range_action == ActionDetails((range \ top) \ second, second, top,
                                          options.min_raise_total)
            done == Done(gameid, game.current_userid, range_action)
        IN /\ Cardinality(range) > 2
           /\ game.bet_count > 0
           /\ options.call_cost > 0
           /\ Len(game.history) > 3
           /\ range_action \in Submissions(game)
           /\ done.result.is_aggressive
           /\ done.result.raise_total = options.min_raise_total
           /\ ~is_finished(done.running_games[gameid])

\* The sub-range of the range action that corresponds to the result.
SubRange(range_action, action_result) ==
    IF action_result.is_fold THEN range_action.fold_range
    ELSE IF action_result.is_passive THEN range_action.passive_range
    ELSE range_action.aggressive_range

\* The UserRange record among the records the call appended.
RangeRecord(game, after) == Appended(game, after)[3].item

\* C9 as claimed: after an accepted passive or aggressive result the acting
\* seat's range is exactly the sub-range submitted for that result (so a
\* subset of its range before); after a fold result the seat is folded.
C9_RangeIsSubRange ==
    \A gameid \in Live :
        LET game == running_games[gameid]
            o == current_rgp(game)
        IN \A range_action \in Submissions(game) :
              LET done == Done(gameid, game.current_userid, range_action)
                  after == done.running_games[gameid]
              IN (~IsAPIError(done.result) /\ ~done.result.is_terminate) =>
                    /\ (done.result.is_passive \/ done.result.is_aggressive) =>
                          /\ after.rgps[o].range = SubRange(range_action, done.result)
                          /\ after.rgps[o].range \subseteq game.rgps[o].range
                    /\ done.result.is_fold => after.rgps[o].folded

\* C9 amended: after an accepted passive or aggressive result the acting
\* seat's range is the sub-range submitted for that result less the
\* combinations that hold a card of the board as it is after the action (the
\* action may complete the betting round, and the cards then dealt are removed
\* from every range); the UserRange record holds the sub-range itself; the
\* range is a subset of the seat's range before; after a fold result the seat
\* is folded.
C9_RangeIsSubRangeOffBoard ==
    \A gameid \in Live :
        LET game == running_games[gameid]
            o == current_rgp(game)
        IN \A range_action \in Submissions(game) :
              LET done == Done(gameid, game.current_userid, range_action)
                  after == done.running_games[gameid]
              IN (~IsAPIError(done.result) /\ ~done.result.is_terminate) =>
                    /\ (done.result.is_passive \/ done.result.is_aggressive) =>
                          /\ after.rgps[o].range
                                = remove_board_from_range(SubRange(range_action, done.result),
                                                          after.board)
                          /\ RangeRecord(game, after).range_raw
                                = SubRange(range_action, done.result)
                          /\ after.rgps[o].range \subseteq game.rgps[o].range
                    /\ done.result.is_fold => after.rgps[o].folded

\* A call completes the betting round, and the card then dealt takes
\* combinations out of the called sub-range.
C9_Witness ==
    \E gameid \in Live :
        LET game == running_games[gameid]
            o == current_rgp(game)
        IN \E range_action \in Submissions(game) :
              LET done == Done(gameid, game.current_userid, range_action)
                  after == done.running_games[gameid]
              IN /\ ~IsAPIError(done.result)
                 /\ done.result.is_passive
                 /\ Len(game.history) > 3
                 /\ after.current_round # game.current_round
                 /\ after.rgps[o].range # range_action.passive_range
                 /\ after.rgps[o].range # {}

\* C10: on the river, when no other seat is left to act, a valid range action
\* that splits the range into a fold part and a check-or-call part with no
\* raise returns is_terminate and finishes the game; only the range action is
\* written to the history, and nothing else of the game changes but the acting
\* seat's left_to_act flag.
C10_RiverSplitTerminates ==
    \A gameid \in Live :
        LET game == running_games[gameid]
            o == current_rgp(game)
        IN (/\ game.current_round = RIVER
            /\ \A p \in Orders(game) \ {o} : ~game.rgps[p].left_to_act) =>
              \A range_action \in Submissions(game) :
                 (/\ range_action.fold_range # NOTHING
                  /\ range_action.passive_range # NOTHING
                  /\ range_action.aggressive_range = NOTHING
                  /\ Fits(game, range_action)) =>
                    LET done == Done(gameid, game.current_userid, range_action)
                        after == done.running_games[gameid]
                    IN /\ done.result = ActionResult_terminate
                       /\ is_finished(after)
                       /\ HistoryTypes(Appended(game, after)) = <<"RangeAction">>
                       /\ [after EXCEPT !.history = game.history,
                                        !.next_hh = game.next_hh,
                                        !.current_userid = game.current_userid,
                                        !.rgps[o].left_to_act = game.rgps[o].left_to_act] = game

\* The last seat to act on the river, facing a bet, folds part of its range
\* and calls with the rest: the hand terminates.
C10_Witness ==
    \E gameid \in Live :
        LET game == running_games[gameid]
            o == current_rgp(game)
            range == game.rgps[o].range
            range_action == ActionDetails(range \ {Top(range)}, {Top(range)}, NOTHING, 0)
            done == Done(gameid, game.current_userid, range_action)
        IN /\ game.current_round = RIVER
           /\ Cardinality(range) > 1
           /\ \A p \in Orders(game) \ {o} : ~game.rgps[p].left_to_act
           /\ calculate_current_options(game, o).call_cost > 0
           /\ done.result.is_terminate
           /\ is_finished(done.running_games[gameid])

LeftToAct(game) == {p \in Orders(game) : game.rgps[p].left_to_act}

NotFolded(game) == {p \in Orders(game) : ~game.rgps[p].folded}

\* The game once the act of the result has changed the seats, before
\* apply_action_result decides what comes next.
Acted(game, o, action_result) ==
    IF action_result.is_fold THEN act_fold(game, o)
    ELSE IF action_result.is_passive THEN act_passive(game, o, action_result.call_cost)
    ELSE act_aggressive(game, o, action_result.raise_total)

\* C11: a game where exactly one seat is left to act and every other seat is
\* folded is finished, and every accepted range action that leaves the seats
\* so finishes the hand: the last seat is not put on turn.
C11_WalkFinishes ==
    \A gameid \in Games :
        LET game == running_games[gameid]
            walk(g) == /\ Cardinality(LeftToAct(g)) = 1
                       /\ \A p \in Orders(g) \ LeftToAct(g) : g.rgps[p].folded
        IN /\ walk(game) => is_finished(game)
           /\ ~is_finished(game) =>
                \A range_action \in Submissions(game) :
                    LET done == Done(gameid, game.current_userid, range_action)
                        after == done.running_games[gameid]
                    IN (~IsAPIError(done.result) /\ walk(after)) =>
                          /\ is_finished(after)
                          /\ Seats(after, after.current_userid) = {}

\* Three-handed, two seats have folded in turn: the hand is finished with the
\* third seat still left to act.
C11_Witness ==
    \E gameid \in Games :
        LET game == running_games[gameid]
        IN /\ Cardinality(Orders(game)) = 3
           /\ Cardinality(LeftToAct(game)) = 1
           /\ Cardinality(NotFolded(game)) = 1
           /\ NotFolded(game) = LeftToAct(game)
           /\ is_finished(game)

\* C12: when the act of an accepted result leaves no seat left to act and at
\* most one seat not folded, or the street is the river, the hand is finished,
\* the street and the board stay as they were and no board record is written;
\* so a call that completes the round on the river finishes the hand.
C12_ShowdownFinishes ==
    \A gameid \in Live :
        LET game == running_games[gameid]
            o == current_rgp(game)
        IN \A range_action \in Submissions(game) :
              LET done == Done(gameid, game.current_userid, range_action)
                  after == done.running_games[gameid]
              IN (~IsAPIError(done.result) /\ ~done.result.is_terminate) =>
                    LET acted == Acted(game, o, done.result)
                    IN (/\ LeftToAct(acted) = {}
                        /\ \/ Cardinality(NotFolded(acted)) <= 1
                           \/ game.current_round = RIVER) =>
                          /\ is_finished(after)
                          /\ after.board = game.board
                          /\ after.current_round = game.current_round
                          /\ \A i \in DOMAIN Appended(game, after) :
                                Appended(game, after)[i].item.type # "Board"

\* The last seat to act on the river calls a bet with its whole range: the
\* hand is finished on the five-card board.
C12_Witness ==
    \E gameid \in Live :
        LET game == running_games[gameid]
            o == current_rgp(game)
            range_action == ActionDetails(NOTHING, game.rgps[o].range, NOTHING, 0)
            done == Done(gameid, game.current_userid, range_action)
        IN /\ game.current_round = RIVER
           /\ game.rgps[o].range # {}
           /\ calculate_current_options(game, o).call_cost > 0
           /\ LeftToAct(game) = {o}
           /\ done.result.is_passive
           /\ is_finished(done.running_games[gameid])
           /\ Len(done.running_games[gameid].board) = 5

\* C13: when an accepted result leaves the hand in the same betting round, the
\* seat on turn is a seat left to act: the first such seat after the seat that
\* acted, or, when no later seat is left to act, the lowest such seat.
C13_TurnPassesInOrder ==
    \A gameid \in Live :
        LET game == running_games[gameid]
            o == current_rgp(game)
        IN \A range_action \in Submissions(game) :
              LET done == Done(gameid, game.current_userid, range_action)
                  after == done.running_games[gameid]
              IN (/\ ~IsAPIError(done.result)
                  /\ ~is_finished(after)
                  /\ after.current_round = game.current_round) =>
                    \E e \in LeftToAct(after) :
                       /\ after.current_userid = after.rgps[e].userid
                       /\ e # o
                       /\ e > o => \A p \in LeftToAct(after) : ~(o < p /\ p < e)
                       /\ e < o => \A p \in LeftToAct(after) : p >= e /\ p <= o

\* Three-handed: after a bet by the middle seat the turn goes to the last seat
\* although the first seat is left to act too, and after the last seat's call
\* it wraps around to the first seat.
C13_Witness ==
    \E gameid \in Live :
        LET game == running_games[gameid]
            o == current_rgp(game)
            range_action == ActionDetails(NOTHING, game.rgps[o].range, NOTHING, 0)
            after == Done(gameid, game.current_userid, range_action).running_games[gameid]
        IN /\ Cardinality(Orders(game)) = 3
           /\ o = 2
           /\ LeftToAct(game) = {0, 2}
           /\ game.rgps[o].range # {}
           /\ LeftToAct(after) = {0}
           /\ ~is_finished(after)
           /\ after.current_userid = after.rgps[0].userid

\* C14: an accepted bet or raise leaves the acting seat's contribution of the
\* round at raise_total and the seat not left to act, makes every other seat
\* left to act exactly when it is not folded, folds nobody and adds one to
\* bet_count; in the heads-up preflop situation as started (bet_count 1) the
\* button's raise of its whole range to 6 puts the big blind on turn, left to
\* act, with bet_count 2.
C14_RaiseApplied ==
    \A gameid \in Live :
        LET game == running_games[gameid]
            o == current_rgp(game)
        IN /\ \A range_action \in Submissions(game) :
                 LET done == Done(gameid, game.current_userid, range_action)
                     after == done.running_games[gameid]
                 IN (~IsAPIError(done.result) /\ done.result.is_aggressive) =>
                       /\ after.rgps[o].contributed = range_action.raise_total
                       /\ ~after.rgps[o].left_to_act
                       /\ \A p \in Orders(game) \ {o} :
                             after.rgps[p].left_to_act <=> ~game.rgps[p].folded
                       /\ \A p \in Orders(game) : after.rgps[p].folded = game.rgps[p].folded
                       /\ after.bet_count = game.bet_count + 1
           /\ (game.situation = _create_hu.description /\ game.history = <<>>) =>
                 LET done == Done(gameid, game.rgps[1].userid,
                                  ActionDetails(NOTHING, NOTHING, game.rgps[1].range, 6))
                     after == done.running_games[gameid]
                 IN /\ game.bet_count = 1
                    /\ done.result = ActionResult_raise_to(6, TRUE)
                    /\ after.rgps[1].contributed = 6
                    /\ after.rgps[0].left_to_act
                    /\ after.current_userid = after.rgps[0].userid
                    /\ after.bet_count = 2

\* Three-handed, one seat has bet and one has folded: the third seat raises,
\* the bettor is left to act again and the folded seat is not.
C14_Witness ==
    \E gameid \in Live :
        LET game == running_games[gameid]
            o == current_rgp(game)
            options == calculate_current_options(game, o)
            range_action == ActionDetails(NOTHING, NOTHING, game.rgps[o].range,
                                          options.min_raise_total)
            done == Done(gameid, game.current_userid, range_action)
            after == done.running_games[gameid]
        IN /\ Cardinality(Orders(game)) = 3
           /\ game.bet_count = 1
           /\ game.rgps[o].range # {}
           /\ \E p \in Orders(game) : game.rgps[p].folded
           /\ \E p \in Orders(game) \ {o} : ~game.rgps[p].folded /\ ~game.rgps[p].left_to_act
           /\ done.result.is_aggressive
           /\ after.bet_count = 2
           /\ \E p \in Orders(game) \ {o} : after.rgps[p].left_to_act /\ ~game.rgps[p].left_to_act

TimedOut(gameid) == process_timeouts(running_games, {gameid}, shuffle)

\* The seats that a fold result in the history has folded.
FoldedBefore(game) ==
    {p \in Orders(game) :
        \E i \in DOMAIN game.history :
            /\ game.history[i].item.type = "ActionResult"
            /\ game.history[i].item.is_fold
            /\ game.history[i].item.userid = game.rgps[p].userid}

\* C16: an accepted fold result leaves the seat folded and not left to act,
\* and in every state of the hand from then on (whatever others bet or raise,
\* whatever rounds complete) the seat is folded, not left to act and not on
\* turn.
C16_FoldedNeverActs ==
    \A gameid \in Games :
        LET game == running_games[gameid]
        IN /\ \A p \in FoldedBefore(game) \cup (Orders(game) \ NotFolded(game)) :
                 /\ game.rgps[p].folded
                 /\ ~game.rgps[p].left_to_act
                 /\ game.current_userid # game.rgps[p].userid
           /\ ~is_finished(game) =>
                 \A range_action \in Submissions(game) :
                    LET o == current_rgp(game)
                        done == Done(gameid, game.current_userid, range_action)
                        after == done.running_games[gameid]
                    IN (~IsAPIError(done.result) /\ done.result.is_fold) =>
                          /\ after.rgps[o].folded
                          /\ ~after.rgps[o].left_to_act
                          /\ after.current_userid # after.rgps[o].userid
                          /\ \A p \in Orders(game) \ NotFolded(game) :
                                after.rgps[p].folded /\ ~after.rgps[p].left_to_act

\* Three-handed: a seat folded, then another bet and was called, and the next
\* street is under way with the folded seat out of it.
C16_Witness ==
    \E gameid \in Live :
        LET game == running_games[gameid]
        IN /\ FoldedBefore(game) # {}
           /\ game.current_round # SituationOf(game).current_round
           /\ game.pot_pre > SituationOf(game).pot_pre
           /\ Cardinality(LeftToAct(game)) = 2
           /\ \A p \in FoldedBefore(game) : ~game.rgps[p].left_to_act
           /\ \E i, j \in DOMAIN game.history :
                 /\ i < j
                 /\ game.history[i].item.type = "ActionResult"
                 /\ game.history[i].item.is_fold
                 /\ game.history[j].item.type = "ActionResult"
                 /\ game.history[j].item.is_aggressive

\* C18: when an accepted result completes the betting round and the hand goes
\* on to the next street, the increment is the situation's big blind,
\* bet_count is 0 and the seats left to act are exactly the seats not folded.
C18_RoundReset ==
    \A gameid \in Live :
        LET game == running_games[gameid]
        IN \A range_action \in Submissions(game) :
              LET done == Done(gameid, game.current_userid, range_action)
                  after == done.running_games[gameid]
              IN (~IsAPIError(done.result) /\ after.current_round # game.current_round) =>
                    /\ ~is_finished(after)
                    /\ after.increment = SituationOf(game).big_blind
                    /\ after.bet_count = 0
                    /\ LeftToAct(after) = NotFolded(after)

\* A raise has put the increment above the big blind; its call completes the
\* round, and the next round starts at the big blind with no bet.
C18_Witness ==
    \E gameid \in Live :
        LET game == running_games[gameid]
            o == current_rgp(game)
            range_action == ActionDetails(NOTHING, game.rgps[o].range, NOTHING, 0)
            after == Done(gameid, game.current_userid, range_action).running_games[gameid]
        IN /\ game.increment > SituationOf(game).big_blind
           /\ game.bet_count > 0
           /\ game.rgps[o].range # {}
           /\ after.current_round = NEXT_ROUND(game.current_round)
           /\ after.increment = SituationOf(game).big_blind
           /\ after.bet_count = 0

\* One step of a hand from `game' to `after': the street stays, or a completed
\* round (nobody but the actor was left to act, and the actor did not bet or
\* raise) moves it one street on, not past the river; the board keeps its
\* cards and holds what the street requires.
StreetStep(game, after, o, is_aggressive) ==
    /\ after.current_round # game.current_round =>
          /\ game.current_round # RIVER
          /\ after.current_round = NEXT_ROUND(game.current_round)
          /\ LeftToAct(game) = {o}
          /\ ~is_aggressive
    /\ Len(after.board) >= Len(game.board)
    /\ SubSeq(after.board, 1, Len(game.board)) = game.board
    /\ Len(after.board) = TOTAL_COMMUNITY_CARDS(after.current_round)

\* C19: the street is one of preflop, flop, turn, river and the board holds
\* exactly the cards the street requires in every state of a game; a range
\* action or a timeout changes the street only by completing the betting
\* round, one street on and never past the river, and keeps the cards already
\* on the board.
C19_StreetAndBoard ==
    \A gameid \in Games :
        LET game == running_games[gameid]
        IN /\ game.current_round \in {PREFLOP, FLOP, TURN, RIVER}
           /\ Len(game.board) = TOTAL_COMMUNITY_CARDS(game.current_round)
           /\ ~is_finished(game) =>
                 LET o == current_rgp(game)
                 IN /\ \A range_action \in Submissions(game) :
                          LET done == Done(gameid, game.current_userid, range_action)
                          IN StreetStep(game, done.running_games[gameid], o,
                                        ~IsAPIError(done.result) /\ done.result.is_aggressive)
                    /\ StreetStep(game, TimedOut(gameid).running_games[gameid], o, FALSE)

\* A heads-up game that started before the flop has reached the river, five
\* cards on the board.
C19_Witness ==
    \E gameid \in Live :
        LET game == running_games[gameid]
        IN /\ SituationOf(game).current_round = PREFLOP
           /\ game.current_round = RIVER
           /\ Len(game.board) = 5
           /\ \E i \in DOMAIN game.history :
                 game.history[i].item.type = "Board" /\ game.history[i].item.street = TURN

\* The cards of the board and of the hands dealt, one after the other.
CardsOut(game) ==
    SeqToSet(game.board) \cup UNION {CardsOf(game.rgps[p].cards_dealt) : p \in Orders(game)}

\* C20: in every state of a game the cards on the board and the cards dealt
\* to the seats (folded seats included) are pairwise distinct, and so they are
\* after any range action: no card comes to the board that is on it or in a
\* hand.
C20_CardsDistinct ==
    \A gameid \in Games :
        LET game == running_games[gameid]
            distinct(g) ==
                /\ Cardinality(SeqToSet(g.board)) = Len(g.board)
                /\ \A p \in Orders(g) :
                      /\ Cardinality(CardsOf(g.rgps[p].cards_dealt)) = 2
                      /\ CardsOf(g.rgps[p].cards_dealt) \cap SeqToSet(g.board) = {}
                      /\ \A q \in Orders(g) \ {p} :
                            CardsOf(g.rgps[p].cards_dealt) \cap CardsOf(g.rgps[q].cards_dealt) = {}
                /\ Cardinality(CardsOut(g)) = Len(g.board) + 2 * Cardinality(Orders(g))
        IN /\ distinct(game)
           /\ ~is_finished(game) =>
                 \A range_action \in Submissions(game) :
                    distinct(Done(gameid, game.current_userid, range_action).running_games[gameid])

\* Three-handed on the river with a seat folded: five board cards and six
\* cards in the hands, eleven different cards.
C20_Witness ==
    \E gameid \in Games :
        LET game == running_games[gameid]
        IN /\ Cardinality(Orders(game)) = 3
           /\ game.current_round = RIVER
           /\ Orders(game) \ NotFolded(game) # {}
           /\ Cardinality(CardsOut(game)) = 11

\* C17: when an accepted result completes the betting round, every seat's
\* contribution of the round is 0 afterwards and pot_pre has grown by exactly
\* the contributions of all seats, folded seats included, as they were when
\* the round completed (those before the action and what the action added).
C17_PotSwept ==
    \A gameid \in Live :
        LET game == running_games[gameid]
            o == current_rgp(game)
        IN \A range_action \in Submissions(game) :
              LET done == Done(gameid, game.current_userid, range_action)
                  after == done.running_games[gameid]
              IN (~IsAPIError(done.result) /\ after.current_round # game.current_round) =>
                    /\ \A p \in Orders(game) : after.rgps[p].contributed = 0
                    /\ after.pot_pre
                          = game.pot_pre
                            + Sum([p \in Orders(game) |-> game.rgps[p].contributed],
                                  Orders(game))
                            + (game.rgps[o].stack - after.rgps[o].stack)

\* Three-handed: a seat bet, was raised and folded; the call of the raise
\* completes the round and the folded seat's bet goes into the pot with the
\* rest.
C17_Witness ==
    \E gameid \in Live :
        LET game == running_games[gameid]
            o == current_rgp(game)
            range_action == ActionDetails(NOTHING, game.rgps[o].range, NOTHING, 0)
            after == Done(gameid, game.current_userid, range_action).running_games[gameid]
        IN /\ \E p \in Orders(game) : game.rgps[p].folded /\ game.rgps[p].contributed > 0
           /\ game.rgps[o].range # {}
           /\ after.current_round # game.current_round
           /\ after.pot_pre > game.pot_pre
                + Sum([p \in Orders(game) |-> game.rgps[p].contributed], NotFolded(game))

\* No combination of a range of the game holds a card of the board.
OffBoard(game) ==
    \A p \in Orders(game) :
        \A c \in game.rgps[p].range : CardsOf(c) \cap SeqToSet(game.board) = {}

\* C21: in every state of a game, from its start on, no seat's range holds a
\* combination with a card of the board, and so it is after every accepted
\* range action and every timeout, whether or not it deals a street.
C21_RangesOffBoard ==
    \A gameid \in Games :
        LET game == running_games[gameid]
        IN /\ OffBoard(game)
           /\ ~is_finished(game) =>
                 /\ \A range_action \in Submissions(game) :
                       OffBoard(Done(gameid, game.current_userid, range_action).running_games[gameid])
                 /\ OffBoard(TimedOut(gameid).running_games[gameid])

\* A three-handed game on the river: every seat still has a range, and every
\* range has lost combinations to the board.
C21_Witness ==
    \E gameid \in Games :
        LET game == running_games[gameid]
        IN /\ Cardinality(Orders(game)) = 3
           /\ game.current_round = RIVER
           /\ \A p \in Orders(game) :
                 /\ game.rgps[p].range # {}
                 /\ Cardinality(game.rgps[p].range)
                       < Cardinality(SituationOf(game).players[p + 1].range_raw)
                 /\ \E c \in SituationOf(game).players[p + 1].range_raw :
                       game.board[5] \in CardsOf(c)

\* The seats of the game that have folded.
Folded(game) == Orders(game) \ NotFolded(game)

\* C22 as stated: whatever happens after a seat has folded (another seat's
\* range action, a round completion with its board deal, a timeout), the
\* range stored for the folded seat is the range it had before.
C22_FoldedRangeFrozen ==
    \A gameid \in Live :
        LET game == running_games[gameid]
        IN \A p \in Folded(game) :
              /\ \A range_action \in Submissions(game) :
                    Done(gameid, game.current_userid, range_action)
                        .running_games[gameid].rgps[p].range = game.rgps[p].range
              /\ TimedOut(gameid).running_games[gameid].rgps[p].range = game.rgps[p].range

\* C22, amended: whatever happens after a seat has folded, the range stored
\* for the folded seat is the range it had before less the combinations that
\* hold a card of the board as it stands after the step; so it is unchanged
\* by every step that deals no card.
C22_FoldedRangeOnlyStripped ==
    \A gameid \in Live :
        LET game == running_games[gameid]
            Stripped(p, after) ==
                /\ after.rgps[p].range = remove_board_from_range(game.rgps[p].range, after.board)
                /\ after.board = game.board => after.rgps[p].range = game.rgps[p].range
        IN \A p \in Folded(game) :
              /\ \A range_action \in Submissions(game) :
                    Stripped(p, Done(gameid, game.current_userid, range_action).running_games[gameid])
              /\ Stripped(p, TimedOut(gameid).running_games[gameid])

\* A seat has folded a range, and a call of another seat completes the round:
\* the card dealt takes combinations out of the folded seat's range.
C22_Witness ==
    \E gameid \in Live :
        LET game == running_games[gameid]
            o == current_rgp(game)
            range_action == ActionDetails(NOTHING, game.rgps[o].range, NOTHING, 0)
            after == Done(gameid, game.current_userid, range_action).running_games[gameid]
        IN \E p \in Folded(game) \cap FoldedBefore(game) :
              /\ game.rgps[o].range # {}
              /\ after.current_round = NEXT_ROUND(game.current_round)
              /\ after.rgps[p].range # game.rgps[p].range
              /\ after.rgps[p].range # {}

\* The game without its history.
Unrecorded(game) == [game EXCEPT !.history = <<>>, !.next_hh = 0]

\* The records with their sequence numbers moved on by n.
Renumbered(records, n) ==
    [i \in DOMAIN records |-> [records[i] EXCEPT !.order = @ + n]]

\* C23: a timeout of the seat on turn and that seat's own range action
\* folding its whole current range with raise_total 0 leave the game in the
\* same state but for the history: the timeout's records are a Timeout record
\* of the seat followed by the records of the range action, one sequence
\* number on; and the range action is accepted with a fold result.
C23_TimeoutIsFoldAll ==
    \A gameid \in Live :
        LET game == running_games[gameid]
            o == current_rgp(game)
            range_action == ActionDetails(game.rgps[o].range, NOTHING, NOTHING, 0)
            done == Done(gameid, game.current_userid, range_action)
            folded == done.running_games[gameid]
            timed == TimedOut(gameid).running_games[gameid]
        IN /\ ~IsAPIError(done.result)
           /\ done.result.is_fold
           /\ timed.rgps[o].folded
           /\ Unrecorded(timed) = Unrecorded(folded)
           /\ timed.next_hh = folded.next_hh + 1
           /\ Appended(game, timed)
                 = <<[order |-> game.next_hh,
                      item |-> [type |-> "Timeout", userid |-> game.current_userid]]>>
                      \o Renumbered(Appended(game, folded), 1)

\* Three-handed, a seat has been timed out and the hand goes on with the two
\* others; the seat now on turn has a range to fold.
C23_Witness ==
    \E gameid \in Live :
        LET game == running_games[gameid]
            o == current_rgp(game)
        IN /\ game.rgps[o].range # {}
           /\ \E i \in DOMAIN game.history :
                 /\ game.history[i].item.type = "Timeout"
                 /\ i + 2 <= Len(game.history)
                 /\ game.history[i + 1].item.type = "RangeAction"
                 /\ game.history[i + 1].item.fold_range # {}
                 /\ game.history[i + 2].item.type = "ActionResult"
                 /\ game.history[i + 2].item.is_fold

\* C24: the records of a game's history carry the sequence numbers 0, 1, 2,
\* ... in the order they were written, and next_hh is the number of records.
C24_HistoryNumbered ==
    \A gameid \in Games :
        LET game == running_games[gameid]
        IN /\ game.next_hh = Len(game.history)
           /\ \A i \in DOMAIN game.history : game.history[i].order = i - 1

\* A history with every kind of record in it.
C24_Witness ==
    \E gameid \in Games :
        LET game == running_games[gameid]
        IN /\ {"Board", "Timeout", "RangeAction", "UserRange", "ActionResult"}
                 \subseteq {game.history[i].item.type : i \in DOMAIN game.history}
           /\ Len(game.history) >= 8

\* C25: apply_action_result and _record_action_result given the terminate
\* result (neither fold, passive nor aggressive) raise with the game as it
\* was; and every ActionResult record of every history is a fold, a passive
\* or an aggressive result.
C25_TerminateNotAccepted ==
    \A gameid \in Games :
        LET game == running_games[gameid]
        IN /\ \A o \in Orders(game) :
                 LET applied == apply_action_result(game, o, ActionResult_terminate, shuffle)
                     recorded == _record_action_result(game, o, ActionResult_terminate)
                 IN /\ IsException(applied) /\ applied.game = game
                    /\ IsException(recorded) /\ recorded.game = game
           /\ \A i \in DOMAIN game.history :
                 game.history[i].item.type = "ActionResult" =>
                    \/ game.history[i].item.is_fold
                    \/ game.history[i].item.is_passive
                    \/ game.history[i].item.is_aggressive

\* A hand that the resolver has terminated: the history ends with the range
\* action, no result record after it.
C25_Witness ==
    \E gameid \in Games :
        LET game == running_games[gameid]
        IN /\ is_finished(game)
           /\ Len(game.history) > 3
           /\ game.history[Len(game.history)].item.type = "RangeAction"
           /\ \E i \in DOMAIN game.history : game.history[i].item.type = "ActionResult"

\* C27: when a step of _perform_action raises after the range action has been
\* validated (recording, resolving, applying and dealing, finishing,
\* notifying), the call answers ERR_UNKNOWN and every game is as it was before
\* the call; when no step raises, the game is the one _perform_action has
\* worked through to its end, its history records included.
C27_ActionAtomic ==
    \A gameid \in Live :
        LET game == running_games[gameid]
            o == current_rgp(game)
            options == calculate_current_options(game, o)
        IN \A range_action \in Submissions(game) :
              Fits(game, range_action) =>
                 /\ \A step \in Steps :
                       LET failed == perform_action_failing(running_games, gameid,
                                        game.current_userid, range_action, shuffle, step)
                       IN /\ failed.running_games = running_games
                          /\ failed.result = ERR_UNKNOWN
                 /\ LET done == Done(gameid, game.current_userid, range_action)
                        performed == _perform_action(game, o, range_action, options, shuffle)
                    IN /\ ~IsAPIError(done.result)
                       /\ done.running_games[gameid] = performed.game
                       /\ Len(Appended(game, performed.game)) >= 1
                       /\ \A other \in Games \ {gameid} :
                             done.running_games[other] = running_games[other]

\* A call that completes the betting round: when notifying raises, the session
\* holds the records, the chips swept, the new street and board; the call
\* leaves nothing of it.
C27_Witness ==
    \E gameid \in Live :
        LET game == running_games[gameid]
            o == current_rgp(game)
            options == calculate_current_options(game, o)
            range_action == ActionDetails(NOTHING, game.rgps[o].range, NOTHING, 0)
            session == _perform_action_failing(game, o, range_action, options, shuffle, "notify").game
            failed == perform_action_failing(running_games, gameid, game.current_userid,
                                             range_action, shuffle, "notify")
        IN /\ game.rgps[o].range # {}
           /\ session.current_round = NEXT_ROUND(game.current_round)
           /\ session.board # game.board
           /\ session.pot_pre > game.pot_pre
           /\ Len(session.history) = Len(game.history) + 4
           /\ failed.running_games = running_games
           /\ failed.result = ERR_UNKNOWN

\* Every situation has exactly one open game with no participant.
ExactlyOneEmpty(db) ==
    \A situation \in Situations : Cardinality(empty_open(db, situation)) = 1

\* C28: once a join_game, leave_game or ensure_open_games call has gone
\* through (the database is no longer the one initialise_db left), every
\* situation has exactly one open game with zero participants.
C28_OneEmptyOpenGame ==
    (open_games # <<>> \/ running_games # <<>> \/ gameid_seq # 0) => ExactlyOneEmpty(Db)

\* A user has joined an open game and left it again, and of the two empty
\* open games of the situation one has been deleted; another open game has a
\* participant.
C28_Witness ==
    /\ ExactlyOneEmpty(Db)
    /\ \E gameid \in 1 .. gameid_seq :
          gameid \notin DOMAIN open_games /\ gameid \notin DOMAIN running_games
    /\ \E gameid \in DOMAIN open_games : open_games[gameid].participants > 0

\* The join of the user has filled the last seat of the open game: the
\* running game is new and the user holds its last seat.
Filled(db, userid, gameid) ==
    /\ gameid \notin DOMAIN running_games
    /\ gameid \in DOMAIN db.running_games
    /\ LET rgps == db.running_games[gameid].rgps
       IN rgps[Cardinality(DOMAIN rgps) - 1].userid = userid

\* The join has registered the user in the open game, which is still open.
Registered(db, userid, gameid) ==
    /\ gameid \in DOMAIN db.open_games
    /\ userid \in SeqToSet(db.open_games[gameid].ogps)
    /\ userid \notin SeqToSet(open_games[gameid].ogps)

\* C29: a join_game call answers the id of the new running game exactly when
\* the join has filled the last seat of the open game, and None when it has
\* registered the user in a game still open; whether or not another user's
\* join or leave of the same open game commits first and the join is tried
\* again.
C29_JoinReturnsGameId ==
    \A userid \in Users, gameid \in DOMAIN open_games, keep \in Keeps :
      \A rival \in {other \in Rivals : other.userid # userid} :
        LET call == join_game(Db, userid, gameid, shuffle, keep, rival)
        IN /\ Filled(call.db, userid, gameid) <=> call.result = Returned(gameid)
           /\ Registered(call.db, userid, gameid) => call.result = Returned(None)

\* The history items that are private to a user: ranges and range actions.
Private(dto) == dto.item.type \in {"UserRange", "RangeAction"}

ActionRecords(game, after, userid) ==
    LET appended == Appended(game, after)
        dealt == after.board # game.board
    IN /\ Len(appended) = IF dealt THEN 4 ELSE 3
       /\ \A i \in DOMAIN appended : appended[i].order = game.next_hh + i - 1
       /\ appended[1].item.type = "RangeAction" /\ appended[1].item.userid = userid
       /\ appended[2].item.type = "ActionResult" /\ appended[2].item.userid = userid
       /\ appended[3].item.type = "UserRange" /\ appended[3].item.userid = userid
       /\ dealt => /\ appended[4].item.type = "Board"
                   /\ appended[4].item.cards = after.board
                   /\ after.current_round # game.current_round

C32_FinishedStaysFinished ==
    \A gameid \in Games \ Live :
        /\ \A userid \in Users :
              \A range_action \in RangeActions(gameid, userid) :
                 LET done == Done(gameid, userid, range_action)
                 IN /\ done.result = ERR_NOT_USERS_TURN
                    /\ done.running_games = running_games
        /\ TimedOut(gameid).running_games = running_games
        /\ TimedOut(gameid).result.count = 0
        /\ running_games[gameid].current_userid = None

\* A hand that went to the river and finished there.
C32_Witness ==
    \E gameid \in Games \ Live :
        LET game == running_games[gameid]
        IN /\ game.current_round = RIVER
           /\ Cardinality(NotFolded(game)) >= 2
           /\ \A userid \in Users :
                 \A range_action \in RangeActions(gameid, userid) :
                    IsAPIError(Done(gameid, userid, range_action).result)
           /\ TimedOut(gameid).running_games[gameid] = game

\* The game has gone on to a new street, and the seat on turn is the seat of
\* the lowest order among those not folded.
LowestOpens(game, after) ==
    (after.current_round # game.current_round /\ ~is_finished(after)) =>
        /\ current_rgp(after) = Min(NotFolded(after))
        /\ \A p \in NotFolded(after) : after.rgps[p].order >= after.rgps[current_rgp(after)].order

\* C33: when a range action or a timeout completes the betting round and the
\* hand goes on, the seat on turn on the new street is the seat not folded
\* with the lowest order, whichever seat acted last.
C33_LowestSeatOpensStreet ==
    \A gameid \in Live :
        LET game == running_games[gameid]
        IN /\ \A range_action \in Submissions(game) :
                 LowestOpens(game, Done(gameid, game.current_userid, range_action).running_games[gameid])
           /\ LowestOpens(game, TimedOut(gameid).running_games[gameid])

\* The seat of order 0 has folded and the seat of order 2 completes the round
\* with a call: the seat of order 1 opens the next street.
C33_Witness ==
    \E gameid \in Live :
        LET game == running_games[gameid]
            o == current_rgp(game)
            range_action == ActionDetails(NOTHING, game.rgps[o].range, NOTHING, 0)
            after == Done(gameid, game.current_userid, range_action).running_games[gameid]
        IN /\ game.rgps[o].range # {}
           /\ after.current_round = NEXT_ROUND(game.current_round)
           /\ ~is_finished(after)
           /\ game.rgps[0].folded
           /\ o = 2
           /\ current_rgp(after) = 1

\* C34: every open game has fewer participants than its situation requires,
\* one per user registered in it, and no open game is a running game as well:
\* the join that fills the last seat has deleted the open game and created
\* the running game.
C34_NoFullOpenGame ==
    /\ \A gameid \in DOMAIN open_games :
          LET game == open_games[gameid]
              situation == CHOOSE situation \in Situations :
                               situation.description = game.situation
          IN /\ game.participants < participants(situation)
             /\ game.participants = Len(game.ogps)
             /\ gameid \notin DOMAIN running_games
    /\ \A userid \in Users, gameid \in DOMAIN open_games, keep \in Keeps :
          LET call == join_game(Db, userid, gameid, shuffle, keep, [op |-> "none", userid |-> None])
          IN call.result = Returned(gameid) =>
                gameid \notin DOMAIN call.db.open_games /\ gameid \in DOMAIN call.db.running_games

\* A join has filled an open game, which is now a running game and no open
\* game, while another open game is one participant short of full.
C34_Witness ==
    /\ \E gameid \in DOMAIN running_games : gameid \notin DOMAIN open_games
    /\ \E gameid \in DOMAIN open_games :
          LET game == open_games[gameid]
              situation == CHOOSE situation \in Situations :
                               situation.description = game.situation
          IN game.participants = participants(situation) - 1

\* The running game has the seats of its situation: as many, each with the
\* situation's stack and contribution and its range (less the combinations
\* with a card of the board dealt at the start), and the user on turn at the
\* start is the one in the seat of the situation's current_player.
SeatedAsSituation(game) ==
    LET situation == SituationOf(game)
    IN /\ Cardinality(DOMAIN game.rgps) = participants(situation)
       /\ \A o \in DOMAIN game.rgps :
             /\ game.rgps[o].order = o
             /\ game.rgps[o].userid \in Users
             /\ game.rgps[o].stack = situation.players[o + 1].stack
             /\ game.rgps[o].contributed = situation.players[o + 1].contributed
             /\ game.rgps[o].range
                   = remove_board_from_range(situation.players[o + 1].range_raw, game.board)
       /\ \A o, p \in DOMAIN game.rgps : o # p => game.rgps[o].userid # game.rgps[p].userid
       /\ situation.current_player \in DOMAIN game.rgps
       /\ game.current_userid = game.rgps[situation.current_player].userid

\* C37: every running game that join_game creates has exactly the seats of
\* its situation, seat i held by the i-th user registered in the open game,
\* whatever joins, leaves and deletions of users came before.
C37_SeatsAsSituation ==
    /\ \A gameid \in DOMAIN running_games : SeatedAsSituation(running_games[gameid])
    /\ \A userid \in Users, gameid \in DOMAIN open_games, keep \in Keeps :
          LET call == join_game(Db, userid, gameid, shuffle, keep, NoRival)
              registered == Append(open_games[gameid].ogps, userid)
          IN call.result = Returned(gameid) =>
                /\ SeatedAsSituation(call.db.running_games[gameid])
                /\ \A o \in DOMAIN call.db.running_games[gameid].rgps :
                      call.db.running_games[gameid].rgps[o].userid = registered[o + 1]

-----------------------------------------------------------------------------
\* The sessions in flight that have played a turn of game `gameid'.
InFlight(gameid) ==
    {s \in Sessions : sessions[s] # NoSession /\ gameid \in Changed(sessions[s])}

\* C35: when two calls (two perform_action calls, or a perform_action and
\* process_timeouts) have read the same turn of the same game, at most one of
\* them is applied to that turn: whichever commits second is refused and
\* the game is as the first left it, and no game's history ever holds two
\* records of one sequence number (two results, or a result and a timeout
\* fold, of one turn).
C35_OneAppliedPerTurn ==
    \A gameid \in Games :
        LET game == running_games[gameid]
        IN /\ \A i, j \in DOMAIN game.history :
                 game.history[i].order = game.history[j].order => i = j
           /\ \A s, t \in InFlight(gameid) :
                 s # t /\ sessions[s].read[gameid].next_hh = sessions[t].read[gameid].next_hh
                 => LET first == commit(running_games, sessions[s])
                        second == commit(first, sessions[t])
                    IN /\ second = first
                       /\ first[gameid] \in {game, sessions[s].written[gameid]}
           /\ \A s \in InFlight(gameid) :
                 commit(running_games, sessions[s])[gameid] # game
                 => /\ sessions[s].read[gameid] = game
                    /\ commit(running_games, sessions[s])[gameid] = sessions[s].written[gameid]

\* A timeout fold and the player's own action have read the same turn; the
\* player's action is committed and the timeout's session, still open, can
\* no longer commit.
C35_Witness ==
    \E gameid \in Games : \E s \in InFlight(gameid) :
        LET game == running_games[gameid]
            rows == Inserted(sessions[s], gameid)
        IN /\ rows[1].item.type = "Timeout"
           /\ \E i \in DOMAIN game.history :
                 /\ game.history[i].order = rows[1].order
                 /\ game.history[i].item.type = "RangeAction"
                 /\ game.history[i].item.passive_range # NOTHING
           /\ commit(running_games, sessions[s]) = running_games
           /\ InFlight(gameid) = {s}

-----------------------------------------------------------------------------
\* The seat on turn has not folded and is left to act.
TurnIsLive(game) ==
    LET o == current_rgp(game)
    IN ~game.rgps[o].folded /\ game.rgps[o].left_to_act

\* C36: in every unfinished game the seat on turn has not folded and has
\* left_to_act set: when the game starts, and after every accepted action
\* and every timeout that leaves the game unfinished, whether the turn
\* passed within the street or a new street was opened.
C36_TurnNotFoldedLeftToAct ==
    \A gameid \in Live :
        LET game == running_games[gameid]
        IN /\ TurnIsLive(game)
           /\ \A range_action \in Submissions(game) :
                 LET after == Done(gameid, game.current_userid, range_action).running_games[gameid]
                 IN ~is_finished(after) => TurnIsLive(after)
           /\ LET after == TimedOut(gameid).running_games[gameid]
              IN ~is_finished(after) => TurnIsLive(after)

\* Three-handed, the first seat has folded and a later seat's call has closed
\* the street: the new street is opened by the second seat, which is left to
\* act.
C36_Witness ==
    \E gameid \in Live :
        LET game == running_games[gameid]
        IN /\ Cardinality(Orders(game)) = 3
           /\ game.rgps[0].folded
           /\ game.current_round # SituationOf(game).current_round
           /\ current_rgp(game) = 1
           /\ LeftToAct(game) = {1, 2}
           /\ TurnIsLive(game)

-----------------------------------------------------------------------------
\* No seat of the game has a negative stack.
StacksCover(game) == \A p \in Orders(game) : game.rgps[p].stack >= 0

\* C38: no seat's stack is ever negative: the call the seat on turn faces
\* costs no more than its stack, an accepted bet or raise is to no more than
\* its stack plus what it has contributed this round, and after every
\* accepted range action and every timeout all stacks are still zero or
\* more.
C38_StacksNotNegative ==
    \A gameid \in Games :
        LET game == running_games[gameid]
        IN /\ StacksCover(game)
           /\ gameid \in Live =>
                 LET o == current_rgp(game)
                     options == calculate_current_options(game, o)
                 IN /\ options.call_cost <= game.rgps[o].stack
                    /\ StacksCover(TimedOut(gameid).running_games[gameid])
                    /\ \A range_action \in Submissions(game) :
                          LET done == Done(gameid, game.current_userid, range_action)
                          IN ~IsAPIError(done.result)
                             => /\ StacksCover(done.running_games[gameid])
                                /\ range_action.aggressive_range # NOTHING
                                   => range_action.raise_total
                                         <= game.rgps[o].stack + game.rgps[o].contributed

\* A seat has bet its whole stack and another has called with all of its own:
\* both stacks are exactly zero.
C38_Witness ==
    \E gameid \in Games :
        LET game == running_games[gameid]
        IN /\ \E p, q \in Orders(game) :
                 /\ p # q
                 /\ game.rgps[p].stack = 0 /\ ~game.rgps[p].folded
                 /\ game.rgps[q].stack = 0 /\ ~game.rgps[q].folded
           /\ \E i \in DOMAIN game.history :
                 /\ game.history[i].item.type = "ActionResult"
                 /\ game.history[i].item.is_passive
                 /\ game.history[i].item.call_cost > 100

-----------------------------------------------------------------------------
\* The games after process_timeouts has found game `gameid' expired `k' times
\* in a row.
RECURSIVE AfterTimeouts(_, _, _)
AfterTimeouts(games, gameid, k) ==
    IF k = 0 THEN games
    ELSE AfterTimeouts(process_timeouts(games, {gameid}, shuffle).running_games, gameid, k - 1)

\* The Timeout records of the game's history.
Timeouts(game) == {i \in DOMAIN game.history : game.history[i].item.type = "Timeout"}

\* C39: when every seat left on turn is timed out in the end, every running
\* hand finishes in the end; a hand with n seats not folded is finished by
\* n - 1 timeouts at most, each of them folding one more seat.
C39_TimeoutsFinishHand ==
    /\ [](\A gameid \in Live :
            LET game == running_games[gameid]
                n == Cardinality(NotFolded(game))
                timed == AfterTimeouts(running_games, gameid, 1)[gameid]
            IN /\ n >= 2
               /\ is_finished(AfterTimeouts(running_games, gameid, n - 1)[gameid])
               /\ Cardinality(NotFolded(timed)) = n - 1
               /\ Cardinality(Timeouts(timed)) = Cardinality(Timeouts(game)) + 1)
    /\ (Live # {}) ~> (Games # {} /\ Live = {})

\* A three-handed hand that nobody played: two timeouts have finished it.
C39_Witness ==
    \E gameid \in Games :
        LET game == running_games[gameid]
        IN /\ is_finished(game)
           /\ Cardinality(Orders(game)) = 3
           /\ Cardinality(Timeouts(game)) = 2
           /\ Cardinality(NotFolded(game)) = 1
           /\ \A i \in DOMAIN game.history :
                 game.history[i].item.type = "RangeAction" => i - 1 \in Timeouts(game)

====
